---- MODULE Spec2Model ----
(***************************************************************************)
(* Delta-Compression (Rust crate `delta`): the three differencing          *)
(* algorithms of Ajtai et al., the Burns-Long in-place conversion, the     *)
(* appliers and the binary container, as a state machine.                  *)
(*                                                                         *)
(* Offsets are 0-based as in the source; strings are TLA+ sequences, so    *)
(* At(s, i) reads s[i] and Slice(s, a, b) reads s[a..b].                    *)
(***************************************************************************)
EXTENDS Integers, Sequences, FiniteSets, TLC

\* ------------------------------------------------------------------ bounds
\* Longest reference and version of the exhaustive input family.
MaxR == 3
MaxV == 3
\* Largest seed length p.
MaxP == 2
\* Largest table-size floor q of the exhaustive family (0 and MaxQ are drawn).
MaxQ == 3
\* Largest lookback capacity buf_cap (0..MaxBufCap are drawn).
MaxBufCap == 2
\* Longest caller-supplied command list handed to place_commands / make_inplace.
MaxGiven == 2
\* Longest command list handed to encode_delta.
MaxCodec == 1
\* |R|, version_size, dst, src and length of the placed commands handed to the
\* appliers, and how many commands
MaxApply == 2
MaxPlaced == 2
\* Longest window p of a rolling hash (a fingerprint below its first byte's
\* term takes nine bytes), and how often it is rolled
MaxHashP == 9
MaxRolls == 2
\* Largest n handed to is_prime and next_prime
MaxPrime == 50
\* Largest key and largest value put into a SplayTree
MaxKey == 2
MaxValue == 1
\* make_inplace called alone: copies per list, bytes per copy, |R|
MaxCopies == 4
MaxCopyLen == 2
MaxInplaceR == 5

\* --------------------------------------------------------------- constants
HASH_BASE == 263
DELTA_BUF_CAP == 256
min_copy == 0

None == [is_some |-> FALSE]
Some(x) == [is_some |-> TRUE, val |-> x]

At(s, i) == s[i + 1]
Slice(s, a, b) == SubSeq(s, a + 1, b)
Min(a, b) == IF a < b THEN a ELSE b
Max(a, b) == IF a > b THEN a ELSE b

\* ------------------------------------------------------------------ hash.rs
\* x >> 61: three shifts that each fit a 32-bit integer.
Shr61(x) == ((x \div 1073741824) \div 1073741824) \div 2

\* (x >> 61) + (x & M) with M = 2^61 - 1, folded twice, each fold followed by
\* a conditional subtraction of M.  For x < 2^61 - 1 the high part is 0, the
\* low part is x and neither subtraction fires, so the result is x.  Seeds of
\* at most three bytes stay below 263^3 < 2^61 - 1; a larger x is outside
\* the arithmetic this module can evaluate and is left undefined.
mod_mersenne(x) == CASE Shr61(x) = 0 -> x

\* Horner evaluation of data[offset..offset+p] in base HASH_BASE.
fingerprint(data, offset, p) ==
    LET RECURSIVE go(_, _)
        go(i, h) == IF i = p THEN h
                    ELSE go(i + 1, mod_mersenne(h * HASH_BASE + At(data, offset + i)))
    IN go(0, 0)

\* HASH_BASE^(p-1) by squaring; the square of the base is formed only while
\* bits of the exponent remain.
precompute_bp(p) ==
    LET RECURSIVE go(_, _, _)
        go(result, base, exp) ==
            IF exp = 0 THEN result
            ELSE LET res1 == IF exp % 2 = 1 THEN mod_mersenne(result * base) ELSE result
                 IN IF exp \div 2 = 0 THEN res1
                    ELSE go(res1, mod_mersenne(base * base), exp \div 2)
    IN IF p = 0 THEN 1 ELSE go(1, HASH_BASE, p - 1)

\* RollingHash::new
RollingHash_new(data, offset, p) ==
    [value |-> fingerprint(data, offset, p), bp |-> precompute_bp(p)]

\* RollingHash::roll: drop old_byte on the left, append new_byte on the right.
\* The branch value < sub adds the modulus back: HASH_MOD - (sub - value).  A
\* window's fingerprint is at least its first byte times bp, so with seeds
\* below the modulus the subtraction never underflows.
roll(rh, old_byte, new_byte) ==
    LET sub == mod_mersenne(old_byte * rh.bp)
        v == CASE rh.value >= sub -> rh.value - sub
    IN [rh EXCEPT !.value = mod_mersenne(v * HASH_BASE + new_byte)]

\* ---- the same arithmetic at full width
\* A u64 or u128 operand is held as nine limbs of 15 bits, least significant
\* first (135 bits), so that products of two 61-bit values and the modulus
\* 2^61 - 1 itself are computed exactly.  A loop's next value is bound as the
\* one element of a set before the loop goes on, so that it is computed once,
\* where the loop computes it.
LimbBase == 2^15
Limbs == 1..9

\* n as u128, for n below 2^31
u128(n) ==
    [i \in Limbs |-> CASE i = 1 -> n % LimbBase
                       [] i = 2 -> (n \div LimbBase) % LimbBase
                       [] i = 3 -> n \div (LimbBase * LimbBase)
                       [] OTHER -> 0]

\* (1 << 61) - 1
HASH_MOD == [i \in Limbs |-> IF i <= 4 THEN LimbBase - 1 ELSE IF i = 5 THEN 1 ELSE 0]

\* Limbs i.. of the number whose limb sums are f, with carry c coming in.
RECURSIVE carry_from(_, _, _)
carry_from(f, i, c) ==
    IF i > 9 THEN <<>>
    ELSE <<(f[i] + c) % LimbBase>> \o carry_from(f, i + 1, (f[i] + c) \div LimbBase)

wide_add(a, b) == carry_from([i \in Limbs |-> a[i] + b[i]], 1, 0)

\* a * d for one limb d, shifted left by n limbs
wide_mul_limb(a, d, n) ==
    carry_from([i \in Limbs |-> IF i > n THEN a[i - n] * d ELSE 0], 1, 0)

\* a * b, one limb of b at a time from limb j on, added to acc
RECURSIVE wide_mul_from(_, _, _, _)
wide_mul_from(a, b, j, acc) ==
    IF j > 9 THEN acc
    ELSE IF b[j] = 0 THEN wide_mul_from(a, b, j + 1, acc)
    ELSE CHOOSE product \in
             {wide_mul_from(a, b, j + 1, sum) :
                 sum \in {wide_add(acc, wide_mul_limb(a, b[j], j - 1))}} :
             TRUE

wide_mul(a, b) == wide_mul_from(a, b, 1, u128(0))

\* a >= b, decided at the most significant limb that differs
wide_ge(a, b) ==
    \/ a = b
    \/ \E i \in Limbs : a[i] > b[i] /\ \A j \in Limbs : j > i => a[j] = b[j]

\* Limbs i.. of a - b with borrow br coming in; a borrow out of the top limb
\* is dropped (the difference wraps).
RECURSIVE borrow_from(_, _, _, _)
borrow_from(a, b, i, br) ==
    IF i > 9 THEN <<>>
    ELSE IF a[i] - b[i] - br < 0
         THEN <<a[i] - b[i] - br + LimbBase>> \o borrow_from(a, b, i + 1, 1)
         ELSE <<a[i] - b[i] - br>> \o borrow_from(a, b, i + 1, 0)

wide_sub(a, b) == borrow_from(a, b, 1, 0)

\* x >> 61: four whole limbs, then one bit
wide_shr61(x) ==
    [i \in Limbs |->
        (IF i + 4 <= 9 THEN x[i + 4] \div 2 ELSE 0)
        + (IF i + 5 <= 9 THEN (x[i + 5] % 2) * (LimbBase \div 2) ELSE 0)]

\* x & HASH_MOD
wide_and_mod(x) ==
    [i \in Limbs |-> IF i <= 4 THEN x[i] ELSE IF i = 5 THEN x[5] % 2 ELSE 0]

\* r = (x >> 61) + (x & m); if r >= m { r -= m }
mersenne_fold(x) ==
    CHOOSE folded \in
        {IF wide_ge(r, HASH_MOD) THEN wide_sub(r, HASH_MOD) ELSE r :
            r \in {wide_add(wide_shr61(x), wide_and_mod(x))}} :
        TRUE

\* mod_mersenne on a u128: the fold, applied twice
mod_mersenne_u128(x) == mersenne_fold(mersenne_fold(x))

RECURSIVE fingerprint_from(_, _, _, _, _)
fingerprint_from(data, offset, p, i, h) ==
    IF i = p THEN h
    ELSE CHOOSE fp \in
             {fingerprint_from(data, offset, p, i + 1, h1) :
                 h1 \in {mod_mersenne_u128(wide_add(wide_mul(h, u128(HASH_BASE)),
                                                    u128(At(data, offset + i))))}} :
             TRUE

\* fingerprint, its u64 result at full width
fingerprint_u64(data, offset, p) == fingerprint_from(data, offset, p, 0, u128(0))

RECURSIVE precompute_bp_from(_, _, _)
precompute_bp_from(result, base, exp) ==
    IF exp = 0 THEN result
    ELSE CHOOSE bp \in
             {precompute_bp_from(result1, base1, exp \div 2) :
                 result1 \in {IF exp % 2 = 1 THEN mod_mersenne_u128(wide_mul(result, base))
                              ELSE result},
                 base1 \in {mod_mersenne_u128(wide_mul(base, base))}} :
             TRUE

precompute_bp_u64(p) ==
    IF p = 0 THEN u128(1) ELSE precompute_bp_from(u128(1), u128(HASH_BASE), p - 1)

RollingHash_new_u64(data, offset, p) ==
    [value |-> fingerprint_u64(data, offset, p), bp |-> precompute_bp_u64(p),
     underflow |-> FALSE]

\* roll_difference without the modulus added back when value < sub.
roll_difference_abs(value, sub) ==
    IF wide_ge(value, sub)
    THEN [v |-> wide_sub(value, sub), underflow |-> FALSE]
    ELSE [v |-> wide_sub(sub, value), underflow |-> FALSE]

\* if self.value >= sub { self.value - sub } else { HASH_MOD - (sub - self.value) }
\* with whether a subtraction took more than it had.
roll_difference(value, sub) ==
    IF wide_ge(value, sub)
    THEN [v |-> wide_sub(value, sub), underflow |-> FALSE]
    ELSE [v |-> wide_sub(HASH_MOD, wide_sub(sub, value)),
          underflow |-> ~wide_ge(HASH_MOD, wide_sub(sub, value))]

\* RollingHash::roll at full width
roll_u64(rh, old_byte, new_byte) ==
    CHOOSE rolled \in
        {[rh EXCEPT !.value = mod_mersenne_u128(wide_add(wide_mul(d.v, u128(HASH_BASE)),
                                                         u128(new_byte))),
                    !.underflow = d.underflow] :
            d \in {roll_difference(rh.value,
                                   mod_mersenne_u128(wide_mul(u128(old_byte), rh.bp)))}} :
        TRUE

power_mod(base, exp, modulus) ==
    LET RECURSIVE go(_, _, _)
        go(result, b, e) ==
            IF e = 0 THEN result
            ELSE go(IF e % 2 = 1 THEN (result * b) % modulus ELSE result,
                    (b * b) % modulus, e \div 2)
    IN IF modulus = 1 THEN 0 ELSE go(1, base % modulus, exp)

\* n = d * 2^r with d odd.
get_d_r(n) ==
    LET RECURSIVE go(_, _)
        go(d, r) == IF d % 2 = 0 THEN go(d \div 2, r + 1) ELSE [d |-> d, r |-> r]
    IN go(n, 0)

\* TRUE iff a proves n composite.
witness(a, n) ==
    LET dr == get_d_r(n - 1)
        RECURSIVE go(_, _)
        go(x, i) ==
            IF i = dr.r THEN x # 1
            ELSE LET y == power_mod(x, 2, n)
                 IN IF y = 1 /\ x # 1 /\ x # n - 1 THEN TRUE ELSE go(y, i + 1)
    IN go(power_mod(a, dr.d, n), 0)

\* is_prime_mr draws k witnesses at random from 2..n-2 (rand::thread_rng):
\* the set of results the call can return.  TRUE needs every draw to be a
\* liar, FALSE needs one draw to be a witness; draws repeat, so for k >= 1
\* either needs only that such a value exists.
is_prime_mr(n, k) ==
    IF n < 2 \/ (n # 2 /\ n % 2 = 0) THEN {FALSE}
    ELSE IF n = 2 \/ n = 3 \/ k = 0 THEN {TRUE}
    ELSE {b \in BOOLEAN : \E a \in 2..(n - 2) : b = ~witness(a, n)}

is_prime(n) == is_prime_mr(n, 100)

\* The values next_prime(n) can return: a candidate is returned when
\* is_prime can answer TRUE for it and FALSE for every candidate before it.
next_prime(n) ==
    LET RECURSIVE go(_)
        go(candidate) ==
            (IF TRUE \in is_prime(candidate) THEN {candidate} ELSE {})
            \cup (IF FALSE \in is_prime(candidate) THEN go(candidate + 2) ELSE {})
    IN IF n <= 2 THEN {2} ELSE go(IF n % 2 = 0 THEN n + 1 ELSE n)

\* ----------------------------------------------------------------- splay.rs
\* A node is a record; Null is the null pointer.  A SplayTree is
\* [root, len].
Null == [isnull |-> TRUE]
Node(key, value, left, right) ==
    [isnull |-> FALSE, key |-> key, value |-> value, left |-> left, right |-> right]
SplayTree_new == [root |-> Null, len |-> 0]

\* The loop of the top-down splay.  ls and rs are the nodes linked so far
\* into the left and right trees hanging off the header (l and r point at
\* the last of each); the loop returns the node t it stops at.
RECURSIVE splay_loop(_, _, _, _)
splay_loop(key, t, ls, rs) ==
    IF key < t.key THEN
        IF t.left.isnull THEN [t |-> t, ls |-> ls, rs |-> rs]
        ELSE LET t1 == IF key < t.left.key
                       THEN \* zig-zig: rotate right
                            LET y == t.left
                            IN [y EXCEPT !.right = [t EXCEPT !.left = y.right]]
                       ELSE t
             IN IF t1.left.isnull THEN [t |-> t1, ls |-> ls, rs |-> rs]
                ELSE \* link right
                     splay_loop(key, t1.left, ls, Append(rs, t1))
    ELSE IF key > t.key THEN
        IF t.right.isnull THEN [t |-> t, ls |-> ls, rs |-> rs]
        ELSE LET t1 == IF key > t.right.key
                       THEN \* zig-zig: rotate left
                            LET y == t.right
                            IN [y EXCEPT !.left = [t EXCEPT !.right = y.left]]
                       ELSE t
             IN IF t1.right.isnull THEN [t |-> t1, ls |-> ls, rs |-> rs]
                ELSE \* link left
                     splay_loop(key, t1.right, Append(ls, t1), rs)
    ELSE [t |-> t, ls |-> ls, rs |-> rs]

\* (*l).right = (*t).left: the chain header.right -> ls[1] -> ... -> ls[n],
\* each hanging off the right pointer of the one before, ends in `last`.
RECURSIVE chain_right(_, _)
chain_right(ls, last) ==
    IF ls = <<>> THEN last
    ELSE [Head(ls) EXCEPT !.right = chain_right(Tail(ls), last)]

RECURSIVE chain_left(_, _)
chain_left(rs, last) ==
    IF rs = <<>> THEN last
    ELSE [Head(rs) EXCEPT !.left = chain_left(Tail(rs), last)]

\* SplayTree::splay: the new root.
splay(root, key) ==
    IF root.isnull THEN root
    ELSE LET s == splay_loop(key, root, <<>>, <<>>)
         IN [s.t EXCEPT !.left = chain_right(s.ls, s.t.left),
                        !.right = chain_left(s.rs, s.t.right)]

\* SplayTree::find: the tree after the splay and the value found.
find(tree, key) ==
    IF tree.root.isnull THEN [tree |-> tree, res |-> None]
    ELSE LET rt == splay(tree.root, key)
         IN [tree |-> [tree EXCEPT !.root = rt],
             res |-> IF rt.key = key THEN Some(rt.value) ELSE None]

\* The new root when key is absent after the splay brought rt to the root.
splay_attach(rt, key, value) ==
    IF key < rt.key
    THEN Node(key, value, rt.left, [rt EXCEPT !.left = Null])
    ELSE Node(key, value, [rt EXCEPT !.right = Null], rt.right)

\* insert_or_get that stores the offered value over the one already there.
insert_or_get_overwrite(tree, key, value) ==
    IF tree.root.isnull
    THEN [root |-> Node(key, value, Null, Null), len |-> tree.len + 1]
    ELSE LET rt == splay(tree.root, key)
         IN IF rt.key = key THEN [tree EXCEPT !.root = [rt EXCEPT !.value = value]]
            ELSE [root |-> splay_attach(rt, key, value), len |-> tree.len + 1]

\* SplayTree::insert_or_get: the tree afterwards; the reference returned is
\* the value at its root.
insert_or_get(tree, key, value) ==
    IF tree.root.isnull
    THEN [root |-> Node(key, value, Null, Null), len |-> tree.len + 1]
    ELSE LET rt == splay(tree.root, key)
         IN IF rt.key = key THEN [tree EXCEPT !.root = rt]
            ELSE [root |-> splay_attach(rt, key, value), len |-> tree.len + 1]

\* SplayTree::insert: overwrites the value of an existing key.
insert(tree, key, value) ==
    IF tree.root.isnull
    THEN [root |-> Node(key, value, Null, Null), len |-> tree.len + 1]
    ELSE LET rt == splay(tree.root, key)
         IN IF rt.key = key THEN [tree EXCEPT !.root = [rt EXCEPT !.value = value]]
            ELSE [root |-> splay_attach(rt, key, value), len |-> tree.len + 1]

\* ----------------------------------------------------------------- types.rs
Copy(offset, length) == [type |-> "Copy", offset |-> offset, length |-> length]
Add(data) == [type |-> "Add", data |-> data]
PlacedCopy(src, dst, length) ==
    [type |-> "Copy", src |-> src, dst |-> dst, length |-> length]
PlacedAdd(dst, data) == [type |-> "Add", dst |-> dst, data |-> data]

\* The number of bytes a command (placed or not) writes.
cmd_len(cmd) == IF cmd.type = "Copy" THEN cmd.length ELSE Len(cmd.data)

Algorithms == {"greedy", "onepass", "correcting"}
Policies == <<"Constant", "Localmin">>

VARIABLES
    \* the caller's arguments
    R, V, algorithm, p, q, buf_cap, use_splay,
    \* where the driver stands, and the panic message once a call aborted
    pc, panic,
    \* diff: table sizing (tab_q is q after `let q = next_prime(..)` shadowed
    \* it in diff_onepass) and the correcting checkpoint parameters
    tab_q, cap, f_size, m, k,
    \* diff: lookup structures (flat table or HashMap, and splay tree)
    h_r_ht, h_v_ht, h_r_sp, h_v_sp,
    \* diff: scan state
    ver, r_c, v_c, v_s, rh_v, rh_v_pos, rh_r, rh_r_pos, dbg_positions,
    \* diff: output and the correcting lookback buffer
    commands, buf

inputVars == <<R, V, algorithm, p, q, buf_cap, use_splay>>
tableVars == <<tab_q, cap, f_size, m, k, h_r_ht, h_v_ht, h_r_sp, h_v_sp>>
scanVars == <<ver, r_c, v_c, v_s, rh_v, rh_v_pos, rh_r, rh_r_pos, dbg_positions>>
diffVars == <<tableVars, scanVars, commands, buf>>

\* Seed length after --min-copy (greedy.rs, onepass.rs).
seed_len(pp) == IF min_copy > 0 THEN Max(pp, min_copy) ELSE pp

\* while a + ml < |a_data| && b + ml < |b_data| && a_data[a+ml] == b_data[b+ml]
RECURSIVE extend_fwd(_, _, _, _, _)
extend_fwd(v, v_at, r, r_at, ml) ==
    IF v_at + ml < Len(v) /\ r_at + ml < Len(r) /\ At(v, v_at + ml) = At(r, r_at + ml)
    THEN extend_fwd(v, v_at, r, r_at, ml + 1)
    ELSE ml

\* The scanners' dispatch on (c == pos, c == pos + 1, else): the rolling
\* hash brought to position c of data.
rh_advance(data, rh, pos, c, pp) ==
    IF c = pos THEN [rh |-> rh, pos |-> pos]
    ELSE IF c = pos + 1
    THEN [rh |-> roll(rh, At(data, c - 1), At(data, c + pp - 1)), pos |-> c]
    ELSE [rh |-> RollingHash_new(data, c, pp), pos |-> c]

\* The trailing Add of Step (8).
flush_tail(cmds, v, vs) ==
    IF vs < Len(v) THEN Append(cmds, Add(Slice(v, vs, Len(v)))) ELSE cmds

\* -------------------------------------------------------- algorithm/greedy.rs
\* h_r.entry(fp).or_default().push(a)
hashmap_push(h, fp, a) ==
    IF fp \in DOMAIN h THEN [h EXCEPT ![fp] = Append(@, a)] ELSE h @@ (fp :> <<a>>)

\* splay_r.insert_or_get(fp, Vec::new()).push(a)
splay_push(tree, fp, a) ==
    LET t == insert_or_get(tree, fp, <<>>)
    IN [t EXCEPT !.root.value = Append(@, a)]

\* Step (1): every offset of R under its fingerprint, in increasing order.
RECURSIVE greedy_build(_, _, _, _, _, _)
greedy_build(r, pp, a, rh, h, splayed) ==
    LET h1 == IF splayed THEN splay_push(h, rh.value, a) ELSE hashmap_push(h, rh.value, a)
    IN IF a + 1 > Len(r) - pp THEN h1
       ELSE greedy_build(r, pp, a + 1, roll(rh, At(r, a), At(r, a + pp)), h1, splayed)

greedy_index(r, pp, splayed) ==
    LET empty == IF splayed THEN SplayTree_new ELSE <<>>
    IN IF Len(r) >= pp
       THEN greedy_build(r, pp, 0, RollingHash_new(r, 0, pp), empty, splayed)
       ELSE empty

\* Steps (4)+(5): the longest verified match among the candidates; a later
\* candidate replaces the best only when strictly longer.
\* greedy_best with `ml >= best_len`: among equal lengths the last offset.
RECURSIVE greedy_best_last(_, _, _, _, _, _)
greedy_best_last(r, v, vc, pp, offsets, best) ==
    IF offsets = <<>> THEN best
    ELSE LET r_cand == Head(offsets)
             ml == extend_fwd(v, vc, r, r_cand, pp)
             best1 == IF Slice(r, r_cand, r_cand + pp) # Slice(v, vc, vc + pp) THEN best
                      ELSE IF ml >= best.best_len
                      THEN [best_rm |-> Some(r_cand), best_len |-> ml]
                      ELSE best
         IN greedy_best_last(r, v, vc, pp, Tail(offsets), best1)

RECURSIVE greedy_best(_, _, _, _, _, _)
greedy_best(r, v, vc, pp, offsets, best) ==
    IF offsets = <<>> THEN best
    ELSE LET r_cand == Head(offsets)
             ml == extend_fwd(v, vc, r, r_cand, pp)
             best1 == IF Slice(r, r_cand, r_cand + pp) # Slice(v, vc, vc + pp) THEN best
                      ELSE IF ml > best.best_len
                      THEN [best_rm |-> Some(r_cand), best_len |-> ml]
                      ELSE best
         IN greedy_best(r, v, vc, pp, Tail(offsets), best1)

\* One iteration of the scan loop of diff_greedy, Step (8) included when the
\* loop breaks.  st holds the locals the iteration reads and writes.
greedy_iter(r, v, pp, splayed, st) ==
    IF st.v_c + pp > Len(v) \/ ~st.rh_v.is_some
    THEN [st EXCEPT !.commands = flush_tail(st.commands, v, st.v_s), !.pc = "diffdone"]
    ELSE
    LET adv == rh_advance(v, st.rh_v.val, st.rh_v_pos, st.v_c, pp)
        fp_v == adv.rh.value
        found == IF splayed THEN find(st.h_r_sp, fp_v)
                 ELSE [tree |-> st.h_r_sp,
                       res |-> IF fp_v \in DOMAIN st.h_r_ht THEN Some(st.h_r_ht[fp_v])
                               ELSE None]
        best == IF found.res.is_some
                THEN greedy_best(r, v, st.v_c, pp, found.res.val,
                                 [best_rm |-> None, best_len |-> 0])
                ELSE [best_rm |-> None, best_len |-> 0]
        st1 == [st EXCEPT !.rh_v = Some(adv.rh), !.rh_v_pos = adv.pos,
                          !.h_r_sp = found.tree]
    IN IF best.best_len < pp THEN [st1 EXCEPT !.v_c = st.v_c + 1]
       ELSE IF ~best.best_rm.is_some
       THEN [st1 EXCEPT !.pc = "abort", !.panic = "greedy: best_rm.unwrap() on None"]
       ELSE LET c1 == IF st.v_s < st.v_c
                      THEN Append(st.commands, Add(Slice(v, st.v_s, st.v_c)))
                      ELSE st.commands
            IN [st1 EXCEPT !.commands = Append(c1, Copy(best.best_rm.val, best.best_len)),
                           !.v_s = st.v_c + best.best_len,
                           !.v_c = st.v_c + best.best_len]

\* ------------------------------------------------------- algorithm/onepass.rs
\* A table entry is (fp, offset, version); a splay value is (offset, version).
ht_get(table, fp, qq, vr) ==
    LET e == At(table, fp % qq)
    IN IF e.is_some /\ e.val.ver = vr /\ e.val.fp = fp THEN Some(e.val.off) ELSE None

\* ht_put without the version test: any occupied slot is retained.
ht_put_any_version(table, fp, off, qq, vr) ==
    LET idx == fp % qq
        e == At(table, idx)
    IN IF e.is_some THEN table
       ELSE [table EXCEPT ![idx + 1] = Some([fp |-> fp, off |-> off, ver |-> vr])]

ht_put(table, fp, off, qq, vr) ==
    LET idx == fp % qq
        e == At(table, idx)
    IN IF e.is_some /\ e.val.ver = vr THEN table
       ELSE [table EXCEPT ![idx + 1] = Some([fp |-> fp, off |-> off, ver |-> vr])]

\* Step (4a) on the splay path: find, then insert unless the current
\* version already holds the fingerprint.
sp_put(tree, fp, off, vr) ==
    LET f == find(tree, fp)
    IN IF ~f.res.is_some \/ f.res.val.ver # vr
       THEN insert(f.tree, fp, [off |-> off, ver |-> vr])
       ELSE f.tree

\* Step (4b) on the splay path: find(fp).and_then(version filter).
sp_get(tree, fp, vr) ==
    LET f == find(tree, fp)
    IN [tree |-> f.tree,
        res |-> IF f.res.is_some /\ f.res.val.ver = vr THEN Some(f.res.val.off) ELSE None]

\* vec![None; q]
empty_table(qq) == [i \in 1..qq |-> None]

\* Step (3): the fingerprint at position c of data when a seed fits there,
\* with the rolling hash brought to c.
onepass_fp(data, rh, pos, c, pp) ==
    IF c + pp <= Len(data) /\ rh.is_some
    THEN LET adv == rh_advance(data, rh.val, pos, c, pp)
         IN [fp |-> Some(adv.rh.value), rh |-> Some(adv.rh), pos |-> adv.pos]
    ELSE [fp |-> None, rh |-> rh, pos |-> pos]

\* Step (4a) for one string: store the offset under the retain-existing policy.
onepass_put(table, tree, fp, off, qq, vr, splayed) ==
    IF ~fp.is_some THEN [table |-> table, tree |-> tree]
    ELSE IF splayed THEN [table |-> table, tree |-> sp_put(tree, fp.val, off, vr)]
    ELSE [table |-> ht_put(table, fp.val, off, qq, vr), tree |-> tree]

\* Step (4b) for one string: the candidate offset stored under fp.
onepass_look(table, tree, fp, qq, vr, splayed) ==
    IF ~fp.is_some THEN [tree |-> tree, res |-> None]
    ELSE IF splayed THEN sp_get(tree, fp.val, vr)
    ELSE [tree |-> tree, res |-> ht_get(table, fp.val, qq, vr)]

\* if a[a_at..a_at + p] == b[cand..cand + p]
onepass_found(a, a_at, b, look, pp) ==
    look.res.is_some
    /\ Slice(a, a_at, a_at + pp) = Slice(b, look.res.val, look.res.val + pp)

\* Steps (5) to (7): the no-match advance, the --min-copy filter, and the
\* encoding of a match with the table flush.
onepass_emit(v, pp, st, match_found, r_m, v_m, ml) ==
    IF ~match_found \/ ml < pp
    THEN [st EXCEPT !.v_c = st.v_c + 1, !.r_c = st.r_c + 1]
    ELSE [st EXCEPT !.commands = Append(IF st.v_s < v_m
                                        THEN Append(st.commands,
                                                    Add(Slice(v, st.v_s, v_m)))
                                        ELSE st.commands,
                                        Copy(r_m, ml)),
                    !.v_s = v_m + ml,
                    !.v_c = v_m + ml,
                    !.r_c = r_m + ml,
                    !.ver = st.ver + 1]

\* Step (4b), second half: after both lookups, the match and its extension.
onepass_extend(r, v, pp, st, found1, look_v, look_r) ==
    LET found2 == onepass_found(v, st.v_c, r, look_r, pp)
        r_m == IF found1 THEN st.r_c ELSE IF found2 THEN look_r.res.val ELSE 0
        v_m == IF found1 THEN look_v.res.val ELSE IF found2 THEN st.v_c ELSE 0
    IN onepass_emit(v, pp, [st EXCEPT !.h_r_sp = look_r.tree], found1 \/ found2,
                    r_m, v_m, extend_fwd(v, v_m, r, r_m, 0))

\* Step (4b), V's seed in R's table, tried only when R's seed found nothing.
onepass_lookup_r(r, v, pp, splayed, st, fp_v, look_v, found1) ==
    onepass_extend(r, v, pp, [st EXCEPT !.h_v_sp = look_v.tree], found1, look_v,
                   onepass_look(st.h_r_ht, st.h_r_sp, IF found1 THEN None ELSE fp_v,
                                st.tab_q, st.ver, splayed))

\* Step (4b), R's seed in V's table.
onepass_lookup_v(r, v, pp, splayed, st, fp_v, look_v) ==
    onepass_lookup_r(r, v, pp, splayed, st, fp_v, look_v,
                     onepass_found(r, st.r_c, v, look_v, pp))

\* Step (4a) for both strings, then Step (4b).
onepass_store(r, v, pp, splayed, st, fv, fr, pv, pr) ==
    onepass_lookup_v(r, v, pp, splayed,
        [st EXCEPT !.dbg_positions = st.dbg_positions + 1,
                   !.rh_v = fv.rh, !.rh_v_pos = fv.pos,
                   !.rh_r = fr.rh, !.rh_r_pos = fr.pos,
                   !.h_v_ht = pv.table, !.h_r_ht = pr.table,
                   !.h_v_sp = pv.tree, !.h_r_sp = pr.tree],
        fv.fp,
        onepass_look(pv.table, pv.tree, fr.fp, st.tab_q, st.ver, splayed))

onepass_seeds(r, v, pp, splayed, st, fv, fr) ==
    onepass_store(r, v, pp, splayed, st, fv, fr,
        onepass_put(st.h_v_ht, st.h_v_sp, fv.fp, st.v_c, st.tab_q, st.ver, splayed),
        onepass_put(st.h_r_ht, st.h_r_sp, fr.fp, st.r_c, st.tab_q, st.ver, splayed))

\* One iteration of the scan loop of diff_onepass, Step (8) included when
\* the loop breaks.
onepass_iter(r, v, pp, splayed, st) ==
    IF ~(st.v_c + pp <= Len(v)) /\ ~(st.r_c + pp <= Len(r))
    THEN [st EXCEPT !.commands = flush_tail(st.commands, v, st.v_s), !.pc = "diffdone"]
    ELSE onepass_seeds(r, v, pp, splayed, st,
                       onepass_fp(v, st.rh_v, st.rh_v_pos, st.v_c, pp),
                       onepass_fp(r, st.rh_r, st.rh_r_pos, st.r_c, pp))

\* ---------------------------------------------------- algorithm/correcting.rs
BufEntry(v_start, v_end, cmd) ==
    [v_start |-> v_start, v_end |-> v_end, cmd |-> cmd, dummy |-> FALSE]

num_seeds_of(r, pp) == IF Len(r) >= pp THEN Len(r) - pp + 1 ELSE 0

\* The values |C| can take: next_prime of the auto-sized capacity.
correcting_cap(r, pp, qq) ==
    IF num_seeds_of(r, pp) > 0
    THEN next_prime(Max(qq, (2 * num_seeds_of(r, pp)) \div pp))
    ELSE next_prime(qq)

\* The values |F| can take.
correcting_f_size(r, pp) ==
    IF num_seeds_of(r, pp) > 0 THEN next_prime(2 * num_seeds_of(r, pp)) ELSE {1}

correcting_m(fs, cp) == IF fs <= cp THEN 1 ELSE (fs + cp - 1) \div cp

\* fingerprint(v, v.len() / 2, p) indexes v[v.len()/2 + p - 1]: the slice
\* index panics when that is past the end of v.
k_in_bounds(v, pp) == Len(v) \div 2 + pp <= Len(v)

correcting_k(v, pp, fs, mm) ==
    IF Len(v) >= pp THEN (fingerprint(v, Len(v) \div 2, pp) % fs) % mm ELSE 0

\* Step (1): first-found table of R's checkpoint seeds.
RECURSIVE correcting_build(_, _, _, _, _)
correcting_build(r, pp, a, splayed, st) ==
    IF a >= num_seeds_of(r, pp) THEN st
    ELSE LET fp == fingerprint(r, a, pp)
             f == fp % st.f_size
             i == f \div st.m
             st1 == IF f % st.m # st.k THEN st
                    ELSE IF splayed
                    THEN [st EXCEPT !.h_r_sp = insert_or_get(@, fp, [fp |-> fp, off |-> a])]
                    ELSE IF i >= st.cap THEN st
                    ELSE IF ~At(st.h_r_ht, i).is_some
                    THEN [st EXCEPT !.h_r_ht[i + 1] = Some([fp |-> fp, off |-> a])]
                    ELSE st
         IN correcting_build(r, pp, a + 1, splayed, st1)

\* lookup_r: the entry and the splay tree as the lookup leaves it.
lookup_r(st, splayed, fp_v, f_v) ==
    IF splayed THEN find(st.h_r_sp, fp_v)
    ELSE [tree |-> st.h_r_sp,
          res |-> IF f_v \div st.m >= st.cap THEN None ELSE At(st.h_r_ht, f_v \div st.m)]

\* while v_c >= bwd + 1 && r_offset >= bwd + 1 && v[v_c-bwd-1] == r[r_offset-bwd-1]
RECURSIVE extend_bwd(_, _, _, _, _)
extend_bwd(v, vc, r, r_offset, bwd) ==
    IF vc >= bwd + 1 /\ r_offset >= bwd + 1
       /\ At(v, vc - bwd - 1) = At(r, r_offset - bwd - 1)
    THEN extend_bwd(v, vc, r, r_offset, bwd + 1)
    ELSE bwd

\* if buf.len() >= buf_cap { pop_front().unwrap() ... }; push_back(entry).
\* ok is FALSE when pop_front() returned None and unwrap() panicked.
\* buf_push that never gives up the oldest entry.
buf_push_keep_all(b, cmds, bcap, entry) ==
    [ok |-> TRUE, buf |-> Append(b, entry), commands |-> cmds]

buf_push(b, cmds, bcap, entry) ==
    IF Len(b) >= bcap
    THEN IF b = <<>> THEN [ok |-> FALSE, buf |-> b, commands |-> cmds]
         ELSE [ok |-> TRUE, buf |-> Append(Tail(b), entry),
               commands |-> IF Head(b).dummy THEN cmds ELSE Append(cmds, Head(b).cmd)]
    ELSE [ok |-> TRUE, buf |-> Append(b, entry), commands |-> cmds]

pop_back(b) == SubSeq(b, 1, Len(b) - 1)

\* tail_correct that reclaims the overlap of a partial Add without
\* trimming the Add.
RECURSIVE tail_correct_untrimmed(_, _, _, _, _)
tail_correct_untrimmed(v, b, v_m, match_end, effective_start) ==
    IF b = <<>> THEN [buf |-> b, effective_start |-> effective_start]
    ELSE LET tl == b[Len(b)]
         IN IF tl.dummy
            THEN tail_correct_untrimmed(v, pop_back(b), v_m, match_end, effective_start)
            ELSE IF tl.v_start >= v_m /\ tl.v_end <= match_end
            THEN tail_correct_untrimmed(v, pop_back(b), v_m, match_end,
                                        Min(effective_start, tl.v_start))
            ELSE IF tl.v_end > v_m /\ tl.v_start < v_m /\ tl.cmd.type = "Add"
            THEN [buf |-> b, effective_start |-> Min(effective_start, v_m)]
            ELSE [buf |-> b, effective_start |-> effective_start]

\* The while-let loop of (6b): the buffer and effective_start it leaves.
RECURSIVE tail_correct(_, _, _, _, _)
tail_correct(v, b, v_m, match_end, effective_start) ==
    IF b = <<>> THEN [buf |-> b, effective_start |-> effective_start]
    ELSE LET tl == b[Len(b)]
         IN IF tl.dummy THEN tail_correct(v, pop_back(b), v_m, match_end, effective_start)
            ELSE IF tl.v_start >= v_m /\ tl.v_end <= match_end
            THEN tail_correct(v, pop_back(b), v_m, match_end,
                              Min(effective_start, tl.v_start))
            ELSE IF tl.v_end > v_m /\ tl.v_start < v_m /\ tl.cmd.type = "Add"
            THEN [buf |-> IF v_m - tl.v_start > 0
                          THEN [b EXCEPT ![Len(b)] =
                                   [tl EXCEPT !.cmd = Add(Slice(v, tl.v_start, v_m)),
                                              !.v_end = v_m]]
                          ELSE pop_back(b),
                  effective_start |-> Min(effective_start, v_m)]
            ELSE [buf |-> b, effective_start |-> effective_start]

\* flush_buf
RECURSIVE flush_buf(_, _)
flush_buf(b, cmds) ==
    IF b = <<>> THEN cmds
    ELSE flush_buf(Tail(b), IF Head(b).dummy THEN cmds ELSE Append(cmds, Head(b).cmd))

unwrap_none == "called Option::unwrap on a None value"

\* Step (6) for a match [v_m, match_end) of V found at r_m in R.
correcting_encode(v, bcap, st, v_m, r_m, match_end) ==
    IF st.v_s <= v_m
    THEN \* (6a)
         LET p1 == IF st.v_s < v_m
                   THEN buf_push(st.buf, st.commands, bcap,
                                 BufEntry(st.v_s, v_m, Add(Slice(v, st.v_s, v_m))))
                   ELSE [ok |-> TRUE, buf |-> st.buf, commands |-> st.commands]
             p2 == buf_push(p1.buf, p1.commands, bcap,
                            BufEntry(v_m, match_end, Copy(r_m, match_end - v_m)))
         IN IF ~p1.ok \/ ~p2.ok
            THEN [st EXCEPT !.pc = "abort", !.panic = unwrap_none]
            ELSE [st EXCEPT !.buf = p2.buf, !.commands = p2.commands,
                            !.v_s = match_end, !.v_c = match_end]
    ELSE \* (6b)
         LET tc == tail_correct(v, st.buf, v_m, match_end, st.v_s)
             adj == tc.effective_start - v_m
             new_len == match_end - tc.effective_start
             p3 == IF new_len > 0
                   THEN buf_push(tc.buf, st.commands, bcap,
                                 BufEntry(tc.effective_start, match_end,
                                          Copy(r_m + adj, new_len)))
                   ELSE [ok |-> TRUE, buf |-> tc.buf, commands |-> st.commands]
         IN IF adj < 0 \/ new_len < 0
            THEN [st EXCEPT !.pc = "abort", !.panic = "attempt to subtract with overflow"]
            ELSE IF ~p3.ok
            THEN [st EXCEPT !.pc = "abort", !.panic = unwrap_none]
            ELSE [st EXCEPT !.buf = p3.buf, !.commands = p3.commands,
                            !.v_s = match_end, !.v_c = match_end]

\* One iteration of the scan loop of diff_correcting, Step (8) included
\* when the loop breaks.
correcting_iter(r, v, pp, bcap, splayed, st) ==
    IF st.v_c + pp > Len(v)
    THEN [st EXCEPT !.commands = flush_tail(flush_buf(st.buf, st.commands), v, st.v_s),
                    !.buf = <<>>, !.pc = "diffdone"]
    ELSE
    LET fp_v == fingerprint(v, st.v_c, pp)
        f_v == fp_v % st.f_size
        effective_min == IF min_copy > 0 THEN min_copy ELSE pp
    IN IF f_v % st.m # st.k THEN [st EXCEPT !.v_c = st.v_c + 1]
       ELSE
       LET entry == lookup_r(st, splayed, fp_v, f_v)
           st1 == [st EXCEPT !.h_r_sp = entry.tree]
       IN IF ~entry.res.is_some \/ entry.res.val.fp # fp_v
             \/ Slice(r, entry.res.val.off, entry.res.val.off + pp)
                  # Slice(v, st.v_c, st.v_c + pp)
          THEN [st1 EXCEPT !.v_c = st.v_c + 1]
          ELSE
          LET r_offset == entry.res.val.off
              fwd == extend_fwd(v, st.v_c, r, r_offset, pp)
              bwd == extend_bwd(v, st.v_c, r, r_offset, 0)
              v_m == st.v_c - bwd
              r_m == r_offset - bwd
              ml == bwd + fwd
          IN IF ml < effective_min THEN [st1 EXCEPT !.v_c = st.v_c + 1]
             ELSE correcting_encode(v, bcap, st1, v_m, r_m, v_m + ml)

\* ------------------------------------------------------------------ apply.rs
RECURSIVE output_size(_)
output_size(cmds) ==
    IF cmds = <<>> THEN 0 ELSE cmd_len(Head(cmds)) + output_size(Tail(cmds))

\* place_from that advances dst by copy lengths only.
RECURSIVE place_from_copies_only(_, _)
place_from_copies_only(cmds, dst) ==
    IF cmds = <<>> THEN <<>>
    ELSE LET c == Head(cmds)
         IN <<IF c.type = "Copy" THEN PlacedCopy(c.offset, dst, c.length)
              ELSE PlacedAdd(dst, c.data)>>
            \o place_from_copies_only(Tail(cmds),
                                      dst + (IF c.type = "Copy" THEN c.length ELSE 0))

RECURSIVE place_from(_, _)
place_from(cmds, dst) ==
    IF cmds = <<>> THEN <<>>
    ELSE LET c == Head(cmds)
         IN <<IF c.type = "Copy" THEN PlacedCopy(c.offset, dst, c.length)
              ELSE PlacedAdd(dst, c.data)>>
            \o place_from(Tail(cmds), dst + cmd_len(c))

place_commands(cmds) == place_from(cmds, 0)

\* out[dst..dst+len].copy_from_slice(bytes)
write_at(out, dst, bytes) ==
    [i \in 1..Len(out) |->
        IF i > dst /\ i <= dst + Len(bytes) THEN bytes[i - dst] ELSE out[i]]

\* data[a..a+n] is a valid slice range; the appliers below return ok = FALSE
\* where the slice would panic.
in_range(data, a, n) == a + n <= Len(data)

RECURSIVE apply_delta_to(_, _, _, _)
apply_delta_to(r, cmds, out, pos) ==
    IF cmds = <<>> THEN [ok |-> TRUE, out |-> out]
    ELSE LET c == Head(cmds)
         IN IF ~in_range(out, pos, cmd_len(c))
               \/ (c.type = "Copy" /\ ~in_range(r, c.offset, c.length))
            THEN [ok |-> FALSE, out |-> out]
            ELSE apply_delta_to(r, Tail(cmds),
                     write_at(out, pos,
                              IF c.type = "Copy"
                              THEN Slice(r, c.offset, c.offset + c.length)
                              ELSE c.data),
                     pos + cmd_len(c))

zeros(n) == [i \in 1..n |-> 0]

apply_delta(r, cmds) == apply_delta_to(r, cmds, zeros(output_size(cmds)), 0)

\* Standard mode: read from r, write to out.  max_written is the largest end
\* of a write so far.
RECURSIVE apply_placed_to(_, _, _, _)
apply_placed_to(r, cmds, out, max_written) ==
    IF cmds = <<>> THEN [ok |-> TRUE, out |-> out, written |-> max_written]
    ELSE LET c == Head(cmds)
         IN IF ~in_range(out, c.dst, cmd_len(c))
               \/ (c.type = "Copy" /\ ~in_range(r, c.src, c.length))
            THEN [ok |-> FALSE, out |-> out, written |-> max_written]
            ELSE apply_placed_to(r, Tail(cmds),
                     write_at(out, c.dst,
                              IF c.type = "Copy" THEN Slice(r, c.src, c.src + c.length)
                              ELSE c.data),
                     Max(max_written, c.dst + cmd_len(c)))

\* One placed command applied inside the buffer; copy_within is a memmove,
\* so the source bytes are taken from the buffer as it is before the write.
apply_placed_one(b, c) ==
    IF c.type = "Copy" THEN write_at(b, c.dst, Slice(b, c.src, c.src + c.length))
    ELSE write_at(b, c.dst, c.data)

placed_in_range(b, c) ==
    /\ in_range(b, c.dst, cmd_len(c))
    /\ c.type = "Copy" => in_range(b, c.src, c.length)

RECURSIVE apply_placed_inplace_to(_, _)
apply_placed_inplace_to(cmds, b) ==
    IF cmds = <<>> THEN [ok |-> TRUE, buf |-> b]
    ELSE IF ~placed_in_range(b, Head(cmds)) THEN [ok |-> FALSE, buf |-> b]
    ELSE apply_placed_inplace_to(Tail(cmds), apply_placed_one(b, Head(cmds)))

apply_delta_inplace(r, cmds, version_size) ==
    LET b0 == r \o zeros(Max(Len(r), version_size) - Len(r))
        res == apply_placed_inplace_to(cmds, b0)
    IN [ok |-> res.ok, out |-> SubSeq(res.buf, 1, Min(version_size, Len(res.buf)))]

\* ---------------------------------------------------------------- inplace.rs
\* Step 1: copy_info (index, src, dst, length) and add_info (dst, data).
RECURSIVE annotate(_, _, _, _)
annotate(cmds, write_pos, ci, ai) ==
    IF cmds = <<>> THEN [copy_info |-> ci, add_info |-> ai]
    ELSE LET c == Head(cmds)
         IN IF c.type = "Copy"
            THEN annotate(Tail(cmds), write_pos + c.length,
                          Append(ci, [idx |-> Len(ci), src |-> c.offset,
                                      dst |-> write_pos, length |-> c.length]), ai)
            ELSE annotate(Tail(cmds), write_pos + Len(c.data), ci,
                          Append(ai, [dst |-> write_pos, data |-> c.data]))

\* write_sorted: the copy indices ordered by dst.
RECURSIVE sort_insert(_, _, _)
sort_insert(sorted, j, ci) ==
    IF sorted = <<>> THEN <<j>>
    ELSE IF At(ci, j).dst < At(ci, Head(sorted)).dst THEN <<j>> \o sorted
    ELSE <<Head(sorted)>> \o sort_insert(Tail(sorted), j, ci)

RECURSIVE write_sorted_of(_, _)
write_sorted_of(ci, j) ==
    IF j = 0 THEN <<>> ELSE sort_insert(write_sorted_of(ci, j - 1), j - 1, ci)

\* write_starts.partition_point(|&ws| ws < bound)
RECURSIVE partition_point(_, _, _)
partition_point(ci, ws, bound) ==
    IF ws = <<>> \/ ~(At(ci, Head(ws)).dst < bound) THEN 0
    ELSE 1 + partition_point(ci, Tail(ws), bound)

\* crwi_adj_of without the test of the write that starts before the read
\* interval and reaches into it.
crwi_adj_of_starts_only(ci, ws, i) ==
    LET si == At(ci, i).src
        read_end == si + At(ci, i).length
        lo == partition_point(ci, ws, si)
        hi == partition_point(ci, ws, read_end)
    IN SelectSeq(Slice(ws, lo, hi), LAMBDA j : j # i)

\* adj[i] as the sweep of Step 2 fills it.
crwi_adj_of(ci, ws, i) ==
    LET si == At(ci, i).src
        read_end == si + At(ci, i).length
        lo == partition_point(ci, ws, si)
        hi == partition_point(ci, ws, read_end)
        before == IF lo > 0 /\ At(ws, lo - 1) # i
                     /\ At(ci, At(ws, lo - 1)).dst + At(ci, At(ws, lo - 1)).length > si
                  THEN <<At(ws, lo - 1)>> ELSE <<>>
        within == SelectSeq(Slice(ws, lo, hi), LAMBDA j : j # i)
    IN before \o within

crwi_adj(ci) ==
    LET ws == write_sorted_of(ci, Len(ci))
    IN [i \in 1..Len(ci) |-> crwi_adj_of(ci, ws, i - 1)]

count_in(seq, j) == Cardinality({x \in DOMAIN seq : seq[x] = j})

RECURSIVE sum_upto(_, _)
sum_upto(f, n) == IF n = 0 THEN 0 ELSE f[n] + sum_upto(f, n - 1)

crwi_in_deg(adj) ==
    [j \in 1..Len(adj) |-> sum_upto([i \in 1..Len(adj) |-> count_in(adj[i], j - 1)], Len(adj))]

\* usize::MAX as the "unvisited" / "trivial" marker.
USIZE_MAX == -1

\* The loop that pops tarjan_stack down to and including v.
RECURSIVE pop_scc(_, _, _)
pop_scc(t, v, scc) ==
    LET w == t.tarjan_stack[Len(t.tarjan_stack)]
        t1 == [t EXCEPT !.tarjan_stack = pop_back(@), !.on_stack[w + 1] = FALSE]
    IN IF w = v THEN [t1 EXCEPT !.sccs = Append(@, Append(scc, w))]
       ELSE pop_scc(t1, v, Append(scc, w))

\* The body of `while let Some(&(v, ni)) = call_stack.last()`, repeated until
\* the call stack is empty.
RECURSIVE tarjan_dfs(_, _)
tarjan_dfs(adj, t) ==
    IF t.call_stack = <<>> THEN t
    ELSE
    LET top == t.call_stack[Len(t.call_stack)]
        v == top[1]
        ni == top[2]
    IN IF ni < Len(At(adj, v))
       THEN LET w == At(At(adj, v), ni)
                t1 == [t EXCEPT !.call_stack[Len(t.call_stack)] = <<v, ni + 1>>]
            IN IF At(t.index, w) = USIZE_MAX
               THEN tarjan_dfs(adj,
                        [t1 EXCEPT !.index[w + 1] = t.index_counter,
                                   !.lowlink[w + 1] = t.index_counter,
                                   !.index_counter = t.index_counter + 1,
                                   !.on_stack[w + 1] = TRUE,
                                   !.tarjan_stack = Append(@, w),
                                   !.call_stack = Append(@, <<w, 0>>)])
               ELSE IF At(t.on_stack, w) /\ At(t.index, w) < At(t.lowlink, v)
               THEN tarjan_dfs(adj, [t1 EXCEPT !.lowlink[v + 1] = At(t.index, w)])
               ELSE tarjan_dfs(adj, t1)
       ELSE LET t1 == [t EXCEPT !.call_stack = pop_back(@)]
                t2 == IF t1.call_stack # <<>>
                         /\ At(t1.lowlink, v)
                              < At(t1.lowlink, t1.call_stack[Len(t1.call_stack)][1])
                      THEN [t1 EXCEPT
                               !.lowlink[t1.call_stack[Len(t1.call_stack)][1] + 1] =
                                   At(t1.lowlink, v)]
                      ELSE t1
            IN IF At(t2.lowlink, v) = At(t2.index, v)
               THEN tarjan_dfs(adj, pop_scc(t2, v, <<>>))
               ELSE tarjan_dfs(adj, t2)

RECURSIVE tarjan_from(_, _, _, _)
tarjan_from(adj, n, start, t) ==
    IF start >= n THEN t.sccs
    ELSE IF At(t.index, start) # USIZE_MAX THEN tarjan_from(adj, n, start + 1, t)
    ELSE tarjan_from(adj, n, start + 1,
             tarjan_dfs(adj,
                 [t EXCEPT !.index[start + 1] = t.index_counter,
                           !.lowlink[start + 1] = t.index_counter,
                           !.index_counter = t.index_counter + 1,
                           !.on_stack[start + 1] = TRUE,
                           !.tarjan_stack = Append(@, start),
                           !.call_stack = Append(@, <<start, 0>>)]))

tarjan_scc(adj, n) ==
    tarjan_from(adj, n, 0,
        [index_counter |-> 0, index |-> [i \in 1..n |-> USIZE_MAX],
         lowlink |-> [i \in 1..n |-> 0], on_stack |-> [i \in 1..n |-> FALSE],
         tarjan_stack |-> <<>>, sccs |-> <<>>, call_stack |-> <<>>])

\* scc_id, scc_list and scc_active from the non-trivial SCCs.
RECURSIVE scc_tables(_, _)
scc_tables(sccs, acc) ==
    IF sccs = <<>> THEN acc
    ELSE LET scc == Head(sccs)
             id == Len(acc.scc_list)
         IN IF Len(scc) > 1
            THEN scc_tables(Tail(sccs),
                     [scc_id |-> [i \in DOMAIN acc.scc_id |->
                                     IF \E x \in DOMAIN scc : scc[x] = i - 1
                                     THEN id ELSE acc.scc_id[i]],
                      scc_list |-> Append(acc.scc_list, scc),
                      scc_active |-> Append(acc.scc_active, Len(scc))])
            ELSE scc_tables(Tail(sccs), acc)

\* The neighbour scan `while next_ni < adj[v].len()` of find_cycle_in_scc:
\* what ends it (a back-edge, a descent, or exhaustion) and at which index.
RECURSIVE scan_neighbours(_, _, _, _, _, _, _)
scan_neighbours(adj, v, next_ni, sid, scc_id, removed, color) ==
    IF next_ni >= Len(At(adj, v)) THEN [kind |-> "exhausted"]
    ELSE LET w == At(At(adj, v), next_ni)
         IN IF At(scc_id, w) # sid \/ At(removed, w)
            THEN scan_neighbours(adj, v, next_ni + 1, sid, scc_id, removed, color)
            ELSE IF At(color, w) = 1 THEN [kind |-> "cycle", w |-> w]
            ELSE IF At(color, w) = 0
            THEN [kind |-> "descend", w |-> w, next_ni |-> next_ni + 1]
            ELSE scan_neighbours(adj, v, next_ni + 1, sid, scc_id, removed, color)

\* path[pos..] where pos is the position of w in path.
RECURSIVE path_from(_, _)
path_from(path, w) == IF Head(path) = w THEN path ELSE path_from(Tail(path), w)

\* cycle_dfs that leaves the path of a found cycle marked as explored
\* (colour 2) instead of resetting it to 0.
RECURSIVE cycle_dfs_path_explored(_, _, _, _, _, _, _)
cycle_dfs_path_explored(adj, sid, scc_id, removed, color, path, stack) ==
    IF stack = <<>> THEN [cycle |-> None, color |-> color]
    ELSE
    LET v == stack[Len(stack)][1]
        ni == stack[Len(stack)][2]
        sc == scan_neighbours(adj, v, ni, sid, scc_id, removed, color)
    IN IF sc.kind = "cycle"
       THEN [cycle |-> Some(path_from(path, sc.w)),
             color |-> [i \in DOMAIN color |->
                           IF \E x \in DOMAIN path : path[x] = i - 1 THEN 2
                           ELSE color[i]]]
       ELSE IF sc.kind = "descend"
       THEN cycle_dfs_path_explored(adj, sid, scc_id, removed,
                      [color EXCEPT ![sc.w + 1] = 1], Append(path, sc.w),
                      Append([stack EXCEPT ![Len(stack)] = <<v, sc.next_ni>>],
                             <<sc.w, 0>>))
       ELSE cycle_dfs_path_explored(adj, sid, scc_id, removed,
                      [color EXCEPT ![v + 1] = 2], pop_back(path), pop_back(stack))

\* The inner `while !stack.is_empty()` loop.
RECURSIVE cycle_dfs(_, _, _, _, _, _, _)
cycle_dfs(adj, sid, scc_id, removed, color, path, stack) ==
    IF stack = <<>> THEN [cycle |-> None, color |-> color]
    ELSE
    LET v == stack[Len(stack)][1]
        ni == stack[Len(stack)][2]
        sc == scan_neighbours(adj, v, ni, sid, scc_id, removed, color)
    IN IF sc.kind = "cycle"
       THEN [cycle |-> Some(path_from(path, sc.w)),
             color |-> [i \in DOMAIN color |->
                           IF \E x \in DOMAIN path : path[x] = i - 1 THEN 0
                           ELSE color[i]]]
       ELSE IF sc.kind = "descend"
       THEN cycle_dfs(adj, sid, scc_id, removed,
                      [color EXCEPT ![sc.w + 1] = 1], Append(path, sc.w),
                      Append([stack EXCEPT ![Len(stack)] = <<v, sc.next_ni>>],
                             <<sc.w, 0>>))
       ELSE cycle_dfs(adj, sid, scc_id, removed,
                      [color EXCEPT ![v + 1] = 2], pop_back(path), pop_back(stack))

\* find_cycle_in_scc: the cycle (or None) with color and scan_start as the
\* call leaves them.
RECURSIVE find_cycle_in_scc(_, _, _, _, _, _, _)
find_cycle_in_scc(adj, scc, sid, scc_id, removed, color, scan_start) ==
    IF scan_start >= Len(scc)
    THEN [cycle |-> None, color |-> color, scan_start |-> scan_start]
    ELSE LET start == At(scc, scan_start)
         IN IF At(removed, start) \/ At(color, start) # 0
            THEN find_cycle_in_scc(adj, scc, sid, scc_id, removed, color, scan_start + 1)
            ELSE LET d == cycle_dfs(adj, sid, scc_id, removed,
                                    [color EXCEPT ![start + 1] = 1],
                                    <<start>>, <<<<start, 0>>>>)
                 IN IF d.cycle.is_some
                    THEN [cycle |-> d.cycle, color |-> d.color,
                          scan_start |-> scan_start]
                    ELSE find_cycle_in_scc(adj, scc, sid, scc_id, removed, d.color,
                                           scan_start + 1)

\* The heap holds Reverse((copy_length, index)) pairs; pop() yields the
\* least pair.
pair_less(a, b) == a[1] < b[1] \/ (a[1] = b[1] /\ a[2] < b[2])
heap_min(h) == CHOOSE a \in h : \A b \in h : a = b \/ pair_less(a, b)

\* `for &w in &adj[v] { if !removed[w] { in_deg[w] -= 1; push when 0 } }`
\* over the neighbours ws; underflow is TRUE when in_deg[w] was already 0.
RECURSIVE release(_, _, _)
release(ci, ws, st) ==
    IF ws = <<>> THEN st
    ELSE LET w == Head(ws)
         IN IF At(st.removed, w) THEN release(ci, Tail(ws), st)
            ELSE IF At(st.in_deg, w) = 0 THEN [st EXCEPT !.underflow = TRUE]
            ELSE release(ci, Tail(ws),
                     [st EXCEPT !.in_deg[w + 1] = @ - 1,
                                !.heap = IF At(st.in_deg, w) = 1
                                         THEN @ \cup {<<At(ci, w).length, w>>} ELSE @])

\* scc_active[scc_id[v]] -= 1 for a vertex of a non-trivial SCC.
leave_scc(scc_id, v, st) ==
    IF At(scc_id, v) = USIZE_MAX THEN st
    ELSE IF At(st.scc_active, At(scc_id, v)) = 0 THEN [st EXCEPT !.underflow = TRUE]
    ELSE [st EXCEPT !.scc_active[At(scc_id, v) + 1] = @ - 1]

\* Drain all ready vertices: `while let Some(Reverse((_, v))) = heap.pop()`.
RECURSIVE kahn_drain(_, _, _, _)
kahn_drain(ci, adj, scc_id, st) ==
    IF st.heap = {} \/ st.underflow THEN st
    ELSE LET top == heap_min(st.heap)
             v == top[2]
             st1 == [st EXCEPT !.heap = @ \ {top}]
         IN IF At(st.removed, v) THEN kahn_drain(ci, adj, scc_id, st1)
            ELSE kahn_drain(ci, adj, scc_id,
                     release(ci, At(adj, v),
                         leave_scc(scc_id, v,
                             [st1 EXCEPT !.removed[v + 1] = TRUE,
                                         !.topo_order = Append(@, v),
                                         !.processed = @ + 1])))

\* (0..n).find(|&i| !removed[i])
first_live(removed) ==
    IF \E i \in DOMAIN removed : ~removed[i]
    THEN Some((CHOOSE i \in DOMAIN removed :
                  ~removed[i] /\ \A j \in DOMAIN removed : ~removed[j] => i <= j) - 1)
    ELSE None

\* cycle_min with max_by_key in place of min_by_key.
cycle_max(ci, cycle) ==
    CHOOSE i \in {cycle[x] : x \in DOMAIN cycle} :
        \A j \in {cycle[x] : x \in DOMAIN cycle} :
            i = j \/ pair_less(<<At(ci, j).length, j>>, <<At(ci, i).length, i>>)

\* cycle.iter().min_by_key(|&&i| (copy_info[i].3, i))
cycle_min(ci, cycle) ==
    CHOOSE i \in {cycle[x] : x \in DOMAIN cycle} :
        \A j \in {cycle[x] : x \in DOMAIN cycle} :
            i = j \/ pair_less(<<At(ci, i).length, i>>, <<At(ci, j).length, j>>)

\* The victim loop of CyclePolicy::Localmin: the victim, whether the
\* safety fallback chose it, and scc_ptr, scan_pos, color afterwards.
RECURSIVE localmin_victim(_, _, _, _, _)
localmin_victim(ci, adj, scc_id, scc_list, st) ==
    IF st.scc_ptr < Len(scc_list) /\ At(st.scc_active, st.scc_ptr) = 0
    THEN localmin_victim(ci, adj, scc_id, scc_list,
                         [st EXCEPT !.scc_ptr = @ + 1, !.scan_pos = 0])
    ELSE IF st.scc_ptr >= Len(scc_list)
    THEN [st |-> [st EXCEPT !.fallback = TRUE], victim |-> first_live(st.removed)]
    ELSE LET fc == find_cycle_in_scc(adj, At(scc_list, st.scc_ptr), st.scc_ptr, scc_id,
                                     st.removed, st.color, st.scan_pos)
         IN IF fc.cycle.is_some
            THEN [st |-> [st EXCEPT !.color = fc.color, !.scan_pos = fc.scan_start],
                  victim |-> Some(cycle_min(ci, fc.cycle.val))]
            ELSE localmin_victim(ci, adj, scc_id, scc_list,
                     [st EXCEPT !.color = fc.color, !.scc_ptr = @ + 1, !.scan_pos = 0])

\* assemble that emits every copy of copy_info, converted or not.
assemble_all_copies(ci, topo, ai) ==
    [x \in 1..Len(ci) |-> PlacedCopy(ci[x].src, ci[x].dst, ci[x].length)]
    \o [x \in 1..Len(ai) |-> PlacedAdd(ai[x].dst, ai[x].data)]

\* Step 4: copies in topological order, then all adds.
assemble(ci, topo, ai) ==
    [x \in 1..Len(topo) |->
        PlacedCopy(At(ci, topo[x]).src, At(ci, topo[x]).dst, At(ci, topo[x]).length)]
    \o [x \in 1..Len(ai) |-> PlacedAdd(ai[x].dst, ai[x].data)]

\* convert_victim that emits the add but leaves the victim in the graph.
convert_victim_kept(r, ci, adj, scc_id, victim, st) ==
    LET c == At(ci, victim)
    IN IF ~in_range(r, c.src, c.length)
       THEN [st EXCEPT !.pc = "abort", !.panic = "range end index out of range for slice"]
       ELSE [st EXCEPT !.add_info =
                           Append(@, [dst |-> c.dst,
                                      data |-> Slice(r, c.src, c.src + c.length)]),
                       !.stats.cycles_broken = @ + 1,
                       !.stats.copies_converted = @ + 1,
                       !.stats.bytes_converted = @ + c.length]

\* Convert victim: materialize its copy data as a literal add.
convert_victim(r, ci, adj, scc_id, victim, st) ==
    LET c == At(ci, victim)
    IN IF ~in_range(r, c.src, c.length)
       THEN [st EXCEPT !.pc = "abort", !.panic = "range end index out of range for slice"]
       ELSE release(ci, At(adj, victim),
                leave_scc(scc_id, victim,
                    [st EXCEPT !.add_info =
                                   Append(@, [dst |-> c.dst,
                                              data |-> Slice(r, c.src, c.src + c.length)]),
                               !.stats.cycles_broken = @ + 1,
                               !.stats.copies_converted = @ + 1,
                               !.stats.bytes_converted = @ + c.length,
                               !.removed[victim + 1] = TRUE,
                               !.processed = @ + 1]))

\* One iteration of `while processed < n`, Step 4 included when the loop
\* ends.
kahn_iter(r, pol, ci, adj, scc_id, scc_list, st) ==
    LET n == Len(ci)
        finish(s) == IF s.pc = "abort" THEN s
                     ELSE IF s.underflow
                     THEN [s EXCEPT !.pc = "abort",
                                    !.panic = "attempt to subtract with overflow"]
                     ELSE IF s.processed < n THEN s
                     ELSE [s EXCEPT !.result = assemble(ci, s.topo_order, s.add_info),
                                    !.stats.num_copies = Len(s.topo_order),
                                    !.stats.num_adds = Len(s.add_info),
                                    !.pc = "placed"]
        st1 == kahn_drain(ci, adj, scc_id, st)
    IN IF st1.underflow \/ st1.processed >= n THEN finish(st1)
       ELSE LET pick == IF pol = "Constant"
                        THEN [st |-> st1, victim |-> first_live(st1.removed)]
                        ELSE localmin_victim(ci, adj, scc_id, scc_list, st1)
            IN IF ~pick.victim.is_some
               THEN [pick.st EXCEPT !.pc = "abort", !.panic = unwrap_none]
               ELSE finish(convert_victim(r, ci, adj, scc_id, pick.victim.val, pick.st))

\* --------------------------------------------------------------- encoding.rs
DELTA_MAGIC == <<68, 76, 84, 1>>
DELTA_FLAG_INPLACE == 1
DELTA_CMD_END == 0
DELTA_CMD_COPY == 1
DELTA_CMD_ADD == 2
DELTA_HEADER_SIZE == 9
DELTA_U32_SIZE == 4
DELTA_COPY_PAYLOAD == 12
DELTA_ADD_HEADER == 8

\* (n as u32).to_be_bytes(), for the n < 2^31 this module can evaluate.
to_be_bytes(n) ==
    <<(n \div 16777216) % 256, (n \div 65536) % 256, (n \div 256) % 256, n % 256>>

\* u32::from_be_bytes([data[pos], .., data[pos + 3]])
from_be_bytes(data, pos) ==
    ((At(data, pos) * 256 + At(data, pos + 1)) * 256 + At(data, pos + 2)) * 256
        + At(data, pos + 3)

RECURSIVE encode_commands(_)
encode_commands(cmds) ==
    IF cmds = <<>> THEN <<>>
    ELSE LET c == Head(cmds)
         IN (IF c.type = "Copy"
             THEN <<DELTA_CMD_COPY>> \o to_be_bytes(c.src) \o to_be_bytes(c.dst)
                  \o to_be_bytes(c.length)
             ELSE <<DELTA_CMD_ADD>> \o to_be_bytes(c.dst) \o to_be_bytes(Len(c.data))
                  \o c.data)
            \o encode_commands(Tail(cmds))

encode_delta(cmds, inplace, vsize) ==
    DELTA_MAGIC \o <<IF inplace THEN DELTA_FLAG_INPLACE ELSE 0>> \o to_be_bytes(vsize)
    \o encode_commands(cmds) \o <<DELTA_CMD_END>>

Err(e) == [ok |-> FALSE, err |-> e]

\* decode_commands that takes a COPY cut short for the end of the stream.
RECURSIVE decode_commands_short_copy(_, _, _)
decode_commands_short_copy(data, pos, cmds) ==
    IF pos >= Len(data) \/ At(data, pos) = DELTA_CMD_END THEN [ok |-> TRUE, commands |-> cmds]
    ELSE IF At(data, pos) = DELTA_CMD_COPY
    THEN IF pos + 1 + DELTA_COPY_PAYLOAD > Len(data) THEN [ok |-> TRUE, commands |-> cmds]
         ELSE decode_commands_short_copy(data, pos + 1 + DELTA_COPY_PAYLOAD,
                  Append(cmds, PlacedCopy(from_be_bytes(data, pos + 1),
                                          from_be_bytes(data, pos + 1 + DELTA_U32_SIZE),
                                          from_be_bytes(data, pos + 1 + 2 * DELTA_U32_SIZE))))
    ELSE IF At(data, pos) = DELTA_CMD_ADD
    THEN IF pos + 1 + DELTA_ADD_HEADER > Len(data) THEN Err("UnexpectedEof")
         ELSE LET dst == from_be_bytes(data, pos + 1)
                  length == from_be_bytes(data, pos + 1 + DELTA_U32_SIZE)
                  at == pos + 1 + DELTA_ADD_HEADER
              IN IF at + length > Len(data) THEN Err("UnexpectedEof")
                 ELSE decode_commands_short_copy(data, at + length,
                          Append(cmds, PlacedAdd(dst, Slice(data, at, at + length))))
    ELSE Err("InvalidFormat")

\* The command loop `while pos < data.len()` of decode_delta.
RECURSIVE decode_commands(_, _, _)
decode_commands(data, pos, cmds) ==
    IF pos >= Len(data) \/ At(data, pos) = DELTA_CMD_END THEN [ok |-> TRUE, commands |-> cmds]
    ELSE IF At(data, pos) = DELTA_CMD_COPY
    THEN IF pos + 1 + DELTA_COPY_PAYLOAD > Len(data) THEN Err("UnexpectedEof")
         ELSE decode_commands(data, pos + 1 + DELTA_COPY_PAYLOAD,
                  Append(cmds, PlacedCopy(from_be_bytes(data, pos + 1),
                                          from_be_bytes(data, pos + 1 + DELTA_U32_SIZE),
                                          from_be_bytes(data, pos + 1 + 2 * DELTA_U32_SIZE))))
    ELSE IF At(data, pos) = DELTA_CMD_ADD
    THEN IF pos + 1 + DELTA_ADD_HEADER > Len(data) THEN Err("UnexpectedEof")
         ELSE LET dst == from_be_bytes(data, pos + 1)
                  length == from_be_bytes(data, pos + 1 + DELTA_U32_SIZE)
                  at == pos + 1 + DELTA_ADD_HEADER
              IN IF at + length > Len(data) THEN Err("UnexpectedEof")
                 ELSE decode_commands(data, at + length,
                          Append(cmds, PlacedAdd(dst, Slice(data, at, at + length))))
    ELSE Err("InvalidFormat")

\* Ok((commands, inplace, version_size)) or Err(..)
decode_delta(data) ==
    IF Len(data) < DELTA_HEADER_SIZE \/ Slice(data, 0, Len(DELTA_MAGIC)) # DELTA_MAGIC
    THEN Err("InvalidFormat")
    ELSE LET dc == decode_commands(data, DELTA_HEADER_SIZE, <<>>)
         IN IF ~dc.ok THEN dc
            ELSE [ok |-> TRUE, commands |-> dc.commands,
                  inplace |-> (At(data, Len(DELTA_MAGIC)) \div DELTA_FLAG_INPLACE) % 2 = 1,
                  version_size |-> from_be_bytes(data, Len(DELTA_MAGIC) + 1)]

\* is_inplace_delta that looks at the magic alone.
is_inplace_delta_magic_only(data) ==
    /\ Len(data) >= Len(DELTA_MAGIC) + 1
    /\ Slice(data, 0, Len(DELTA_MAGIC)) = DELTA_MAGIC

is_inplace_delta(data) ==
    /\ Len(data) >= Len(DELTA_MAGIC) + 1
    /\ Slice(data, 0, Len(DELTA_MAGIC)) = DELTA_MAGIC
    /\ (At(data, Len(DELTA_MAGIC)) \div DELTA_FLAG_INPLACE) % 2 = 1

\* ------------------------------------------------------------ the pipeline
\* The driver (main.rs, tests/integration.rs) runs diff, applies the delta,
\* places it, and for each cycle policy converts it in place and applies the
\* conversion inside one buffer.
VARIABLES
    \* apply_delta's output and place_commands' output
    out, placed,
    \* make_inplace: the policy of the current call and its locals
    policy, copy_info, add_info, adj, in_deg, scc_id, scc_list, scc_active,
    removed, topo_order, color, scc_ptr, scan_pos, heap, processed, stats,
    \* make_inplace: whether the Localmin safety fallback chose a victim
    fallback,
    \* make_inplace's returned commands, and one entry per finished policy
    result, results,
    \* apply_delta_inplace: the buffer and the index of the next command
    ibuf, ipos, inplace_out,
    \* the repeated run: its number and the first run's command list
    run, first,
    \* the container: what the caller hands to encode_delta (the hashes are
    \* the two extra arguments of its call sites), the bytes, and what
    \* decode_delta returns
    enc_commands, enc_inplace, enc_version_size, src_hash, dst_hash, wire, decoded,
    \* a call of one library function on its own: the call and what it returned
    call, ret

outVars == <<out, placed>>
ipVars == <<policy, copy_info, add_info, adj, in_deg, scc_id, scc_list, scc_active,
            removed, topo_order, color, scc_ptr, scan_pos, heap, processed, stats,
            fallback, result, results>>
applyVars == <<ibuf, ipos, inplace_out>>
runVars == <<run, first>>
codecVars == <<enc_commands, enc_inplace, enc_version_size, src_hash, dst_hash, wire,
               decoded>>
unitVars == <<call, ret>>
vars == <<inputVars, pc, panic, diffVars, outVars, ipVars, applyVars, runVars,
          codecVars, unitVars>>

\* ---- inputs
Bytes == {0, 1}
Strings(n) == UNION {[1..len -> Bytes] : len \in 0..n}
QValues == {0, MaxQ}
BufCaps == 0..MaxBufCap \cup {DELTA_BUF_CAP}

Input(r, v, alg, pp, qq, bc, sp) ==
    [R |-> r, V |-> v, algorithm |-> alg, p |-> pp, q |-> qq, buf_cap |-> bc,
     use_splay |-> sp]

\* Every call of one algorithm over the bounded strings.  q is ignored by
\* diff_greedy and buf_cap by diff_greedy and diff_onepass.
BoundedInputs ==
    {Input(r, v, "greedy", pp, 0, DELTA_BUF_CAP, sp) :
        r \in Strings(MaxR), v \in Strings(MaxV), pp \in 1..MaxP, sp \in BOOLEAN}
    \cup {Input(i.R, i.V, "onepass", i.p, qq, DELTA_BUF_CAP, i.use_splay) :
            i \in {Input(r, v, "onepass", pp, 0, 0, sp) :
                      r \in Strings(MaxR), v \in Strings(MaxV), pp \in 1..MaxP,
                      sp \in BOOLEAN},
            qq \in QValues}
    \cup {Input(i.R, i.V, "correcting", i.p, qq, bc, i.use_splay) :
            i \in {Input(r, v, "correcting", pp, 0, 0, sp) :
                      r \in Strings(MaxR), v \in Strings(MaxV), pp \in 1..MaxP,
                      sp \in BOOLEAN},
            qq \in QValues, bc \in BufCaps}

\* Longer calls: a transposition whose CRWI digraph has two overlapping
\* cycles, a table size request next to the composite 25, and a version
\* whose longest match at offset 0 leaves a tail shorter than the seed.
Scenarios ==
    {Input(<<0, 0, 0, 1>>, <<0, 1, 1, 0, 0>>, alg, 1, 0, DELTA_BUF_CAP, FALSE) :
        alg \in {"greedy", "correcting"}}
    \cup {Input(<<0, 0, 1, 0, 0>>, <<1, 0, 0, 1, 0>>, "greedy", 3, 0, DELTA_BUF_CAP, sp) :
            sp \in BOOLEAN}
    \cup {Input(<<0, 1>>, <<1, 0, 2>>, "greedy", 1, 0, DELTA_BUF_CAP, FALSE)}
    \cup {Input(<<0, 0, 1, 1, 0, 1>>, <<0, 1>>, "greedy", 1, 0, DELTA_BUF_CAP, sp) :
            sp \in BOOLEAN}
    \cup {Input(<<0, 99, 0, 1>>, <<2, 99, 0, 1>>, "correcting", 1, 0, bc, FALSE) :
            bc \in {2, DELTA_BUF_CAP}}
    \cup {Input(<<0, 2, 1>>, <<0, 1, 2, 1>>, "onepass", 2, 24, DELTA_BUF_CAP, FALSE),
          Input(<<0, 2, 1>>, <<0, 1, 2, 1>>, "correcting", 2, 24, DELTA_BUF_CAP, FALSE)}

\* Command lists a caller passes to place_commands and make_inplace directly:
\* copies inside R, the empty copy included, and adds.
GivenCommands(r) ==
    {c \in {Copy(o, l) : o \in 0..Len(r), l \in 0..Len(r)} :
        c.offset + c.length <= Len(r)}
    \cup {Add(<<>>), Add(<<1>>)}

GivenLists(r) == UNION {[1..len -> GivenCommands(r)] : len \in 0..MaxGiven}

\* ---- construction
empty_stats == [num_copies |-> 0, num_adds |-> 0, edges |-> 0, cycles_broken |-> 0,
                copies_converted |-> 0, bytes_converted |-> 0]

DiffInit ==
    /\ tab_q = 0 /\ cap = 0 /\ f_size = 0 /\ m = 0 /\ k = 0
    /\ h_r_ht = <<>> /\ h_v_ht = <<>>
    /\ h_r_sp = SplayTree_new /\ h_v_sp = SplayTree_new
    /\ ver = 0 /\ r_c = 0 /\ v_c = 0 /\ v_s = 0
    /\ rh_v = None /\ rh_v_pos = 0 /\ rh_r = None /\ rh_r_pos = 0
    /\ dbg_positions = 0
    /\ buf = <<>>

InplaceInit ==
    /\ copy_info = <<>> /\ add_info = <<>> /\ adj = <<>> /\ in_deg = <<>>
    /\ scc_id = <<>> /\ scc_list = <<>> /\ scc_active = <<>>
    /\ removed = <<>> /\ topo_order = <<>> /\ color = <<>>
    /\ scc_ptr = 0 /\ scan_pos = 0 /\ heap = {} /\ processed = 0
    /\ stats = empty_stats /\ fallback = FALSE /\ result = <<>>

RestInit ==
    /\ panic = ""
    /\ out = <<>> /\ placed = <<>>
    /\ policy = "Constant" /\ InplaceInit /\ results = <<>>
    /\ ibuf = <<>> /\ ipos = 0 /\ inplace_out = <<>>
    /\ run = 1 /\ first = None
    /\ call = None /\ ret = None

CodecIdle ==
    /\ enc_commands = <<>> /\ enc_inplace = FALSE /\ enc_version_size = 0
    /\ src_hash = <<>> /\ dst_hash = <<>> /\ wire = <<>> /\ decoded = None

SetInput(i) ==
    /\ R = i.R /\ V = i.V /\ algorithm = i.algorithm /\ p = i.p /\ q = i.q
    /\ buf_cap = i.buf_cap /\ use_splay = i.use_splay

\* A call of diff with its arguments, or a caller holding a command list.
Init ==
    /\ \/ /\ \E i \in BoundedInputs \cup Scenarios : SetInput(i)
          /\ pc = "start" /\ commands = <<>>
       \/ /\ \E r \in Strings(MaxGiven) :
                /\ SetInput(Input(r, <<>>, "given", 1, 0, DELTA_BUF_CAP, FALSE))
                /\ commands \in GivenLists(r)
          /\ pc = "diffdone"
    /\ DiffInit
    /\ RestInit
    /\ CodecIdle

\* ---- the locals of diff as one record, and back
DiffState ==
    [pc |-> pc, panic |-> panic, tab_q |-> tab_q, cap |-> cap, f_size |-> f_size,
     m |-> m, k |-> k, h_r_ht |-> h_r_ht, h_v_ht |-> h_v_ht, h_r_sp |-> h_r_sp,
     h_v_sp |-> h_v_sp, ver |-> ver, r_c |-> r_c, v_c |-> v_c, v_s |-> v_s,
     rh_v |-> rh_v, rh_v_pos |-> rh_v_pos, rh_r |-> rh_r, rh_r_pos |-> rh_r_pos,
     dbg_positions |-> dbg_positions, commands |-> commands, buf |-> buf]

SetDiff(st) ==
    /\ pc' = st.pc /\ panic' = st.panic
    /\ tab_q' = st.tab_q /\ cap' = st.cap /\ f_size' = st.f_size
    /\ m' = st.m /\ k' = st.k
    /\ h_r_ht' = st.h_r_ht /\ h_v_ht' = st.h_v_ht
    /\ h_r_sp' = st.h_r_sp /\ h_v_sp' = st.h_v_sp
    /\ ver' = st.ver /\ r_c' = st.r_c /\ v_c' = st.v_c /\ v_s' = st.v_s
    /\ rh_v' = st.rh_v /\ rh_v_pos' = st.rh_v_pos
    /\ rh_r' = st.rh_r /\ rh_r_pos' = st.rh_r_pos
    /\ dbg_positions' = st.dbg_positions
    /\ commands' = st.commands /\ buf' = st.buf

notDiff == <<inputVars, unitVars, outVars, ipVars, applyVars, runVars, codecVars>>

\* ---- diff_greedy
greedy_start(r, v, pp, splayed, st) ==
    IF v = <<>> THEN [st EXCEPT !.pc = "diffdone"]
    ELSE [st EXCEPT
            !.h_r_ht = IF splayed THEN @ ELSE greedy_index(r, seed_len(pp), FALSE),
            !.h_r_sp = IF splayed THEN greedy_index(r, seed_len(pp), TRUE) ELSE @,
            !.rh_v = IF Len(v) >= seed_len(pp)
                     THEN Some(RollingHash_new(v, 0, seed_len(pp))) ELSE None,
            !.pc = "scan"]

GreedyStart ==
    /\ pc = "start" /\ algorithm = "greedy"
    /\ \E st \in {greedy_start(R, V, p, use_splay, DiffState)} : SetDiff(st)
    /\ UNCHANGED notDiff

GreedyStep ==
    /\ pc = "scan" /\ algorithm = "greedy"
    /\ \E st \in {greedy_iter(R, V, seed_len(p), use_splay, DiffState)} : SetDiff(st)
    /\ UNCHANGED notDiff

\* ---- diff_onepass
onepass_start(r, v, pp, splayed, qq, st) ==
    IF v = <<>> THEN [st EXCEPT !.pc = "diffdone"]
    ELSE [st EXCEPT
            !.tab_q = qq,
            !.h_v_ht = IF splayed THEN <<>> ELSE empty_table(qq),
            !.h_r_ht = IF splayed THEN <<>> ELSE empty_table(qq),
            !.rh_v = IF Len(v) >= pp THEN Some(RollingHash_new(v, 0, pp)) ELSE None,
            !.rh_r = IF Len(r) >= pp THEN Some(RollingHash_new(r, 0, pp)) ELSE None,
            !.pc = "scan"]

\* The table sizes next_prime can return for this call.
onepass_q(r, pp, qq) == next_prime(Max(qq, num_seeds_of(r, pp) \div pp))

OnepassStart ==
    /\ pc = "start" /\ algorithm = "onepass"
    /\ \E qq \in onepass_q(R, seed_len(p), q) :
          \E st \in {onepass_start(R, V, seed_len(p), use_splay, qq, DiffState)} :
              SetDiff(st)
    /\ UNCHANGED notDiff

OnepassStep ==
    /\ pc = "scan" /\ algorithm = "onepass"
    /\ \E st \in {onepass_iter(R, V, seed_len(p), use_splay, DiffState)} : SetDiff(st)
    /\ UNCHANGED notDiff

\* ---- diff_correcting
correcting_start(r, v, pp, splayed, cp, fs, st) ==
    IF v = <<>> THEN [st EXCEPT !.pc = "diffdone"]
    ELSE IF Len(v) >= pp /\ ~k_in_bounds(v, pp)
    THEN [st EXCEPT !.cap = cp, !.f_size = fs, !.m = correcting_m(fs, cp),
                    !.pc = "abort", !.panic = "index out of bounds"]
    ELSE correcting_build(r, pp, 0, splayed,
             [st EXCEPT !.cap = cp, !.f_size = fs, !.m = correcting_m(fs, cp),
                        !.k = correcting_k(v, pp, fs, correcting_m(fs, cp)),
                        !.h_r_ht = IF splayed THEN <<>> ELSE empty_table(cp),
                        !.pc = "scan"])

CorrectingStart ==
    /\ pc = "start" /\ algorithm = "correcting"
    /\ \E cp \in correcting_cap(R, p, q), fs \in correcting_f_size(R, p) :
          \E st \in {correcting_start(R, V, p, use_splay, cp, fs, DiffState)} :
              SetDiff(st)
    /\ UNCHANGED notDiff

CorrectingStep ==
    /\ pc = "scan" /\ algorithm = "correcting"
    /\ \E st \in {correcting_iter(R, V, p, buf_cap, use_splay, DiffState)} : SetDiff(st)
    /\ UNCHANGED notDiff

Diff == \/ GreedyStart \/ GreedyStep \/ OnepassStart \/ OnepassStep
        \/ CorrectingStart \/ CorrectingStep

\* ---- apply_delta and place_commands
slice_panic == "range end index out of range for slice"

ApplyDelta ==
    /\ pc = "diffdone" /\ run = 1
    /\ \E res \in {apply_delta(R, commands)} :
          IF res.ok
          THEN out' = res.out /\ pc' = "applied" /\ UNCHANGED panic
          ELSE pc' = "abort" /\ panic' = slice_panic /\ UNCHANGED out
    /\ UNCHANGED <<inputVars, unitVars, diffVars, placed, ipVars, applyVars, runVars, codecVars>>

PlaceCommands ==
    /\ pc = "applied"
    /\ placed' = place_commands(commands)
    /\ pc' = "convert"
    /\ UNCHANGED <<inputVars, unitVars, panic, diffVars, out, ipVars, applyVars, runVars, codecVars>>

\* ---- make_inplace
InplaceState ==
    [pc |-> pc, panic |-> panic, add_info |-> add_info, in_deg |-> in_deg,
     scc_active |-> scc_active, removed |-> removed, topo_order |-> topo_order,
     color |-> color, scc_ptr |-> scc_ptr, scan_pos |-> scan_pos, heap |-> heap,
     processed |-> processed, stats |-> stats, fallback |-> fallback,
     result |-> result, underflow |-> FALSE]

SetInplace(st) ==
    /\ pc' = st.pc /\ panic' = st.panic
    /\ add_info' = st.add_info /\ in_deg' = st.in_deg
    /\ scc_active' = st.scc_active /\ removed' = st.removed
    /\ topo_order' = st.topo_order /\ color' = st.color
    /\ scc_ptr' = st.scc_ptr /\ scan_pos' = st.scan_pos /\ heap' = st.heap
    /\ processed' = st.processed /\ stats' = st.stats
    /\ fallback' = st.fallback /\ result' = st.result

\* The locals of a call that has not started.
inplace_locals ==
    [copy_info |-> <<>>, add_info |-> <<>>, adj |-> <<>>, in_deg |-> <<>>,
     scc_id |-> <<>>, scc_list |-> <<>>, scc_active |-> <<>>, removed |-> <<>>,
     topo_order |-> <<>>, color |-> <<>>, scc_ptr |-> 0, scan_pos |-> 0, heap |-> {},
     processed |-> 0, stats |-> empty_stats, fallback |-> FALSE, result |-> <<>>,
     pc |-> "placed"]

\* Everything make_inplace does before `while processed < n`, or all of it
\* when it returns early.
make_inplace_entry(cmds) ==
    LET an == annotate(cmds, 0, <<>>, <<>>)
        n == Len(an.copy_info)
        g == crwi_adj(an.copy_info)
        deg == crwi_in_deg(g)
        tb == scc_tables(tarjan_scc(g, n),
                         [scc_id |-> [i \in 1..n |-> USIZE_MAX],
                          scc_list |-> <<>>, scc_active |-> <<>>])
    IN IF cmds = <<>> THEN inplace_locals
       ELSE IF n = 0
       THEN [inplace_locals EXCEPT
                !.add_info = an.add_info,
                !.stats.num_adds = Len(an.add_info),
                !.result = assemble(<<>>, <<>>, an.add_info)]
       ELSE [inplace_locals EXCEPT
                !.copy_info = an.copy_info, !.add_info = an.add_info,
                !.adj = g, !.in_deg = deg,
                !.stats.edges = sum_upto(deg, n),
                !.scc_id = tb.scc_id, !.scc_list = tb.scc_list,
                !.scc_active = tb.scc_active,
                !.removed = [i \in 1..n |-> FALSE],
                !.color = [i \in 1..n |-> 0],
                !.heap = {<<an.copy_info[i].length, i - 1>> :
                             i \in {j \in 1..n : deg[j] = 0}},
                !.pc = "kahn"]

MakeInplaceStart ==
    /\ pc = "convert"
    /\ \E st \in {make_inplace_entry(commands)} :
          /\ copy_info' = st.copy_info /\ add_info' = st.add_info
          /\ adj' = st.adj /\ in_deg' = st.in_deg
          /\ scc_id' = st.scc_id /\ scc_list' = st.scc_list
          /\ scc_active' = st.scc_active /\ removed' = st.removed
          /\ topo_order' = st.topo_order /\ color' = st.color
          /\ scc_ptr' = st.scc_ptr /\ scan_pos' = st.scan_pos /\ heap' = st.heap
          /\ processed' = st.processed /\ stats' = st.stats
          /\ fallback' = st.fallback /\ result' = st.result
          /\ pc' = st.pc
    /\ UNCHANGED <<inputVars, unitVars, panic, diffVars, outVars, policy, results, applyVars,
                   runVars, codecVars>>

KahnStep ==
    /\ pc = "kahn"
    /\ \E st \in {kahn_iter(R, policy, copy_info, adj, scc_id, scc_list, InplaceState)} :
          SetInplace(st)
    /\ UNCHANGED <<inputVars, unitVars, diffVars, outVars, policy, copy_info, adj, scc_id,
                   scc_list, results, applyVars, runVars, codecVars>>

\* ---- apply_delta_inplace
\* The version size the caller passes: |V|, or the output size of the list
\* it holds.
version_size == IF algorithm = "given" THEN output_size(commands) ELSE Len(V)

\* buf = R, zero-extended to max(|R|, version_size)
ApplyInplaceStart ==
    /\ pc = "placed"
    /\ ibuf' = R \o zeros(Max(Len(R), version_size) - Len(R))
    /\ ipos' = 0
    /\ pc' = "apply"
    /\ UNCHANGED <<inputVars, unitVars, panic, diffVars, outVars, ipVars, inplace_out, runVars, codecVars>>

\* One command of apply_placed_inplace_to.
ApplyInplaceStep ==
    /\ pc = "apply" /\ ipos < Len(result)
    /\ IF placed_in_range(ibuf, At(result, ipos))
       THEN /\ ibuf' = apply_placed_one(ibuf, At(result, ipos))
            /\ ipos' = ipos + 1
            /\ UNCHANGED <<pc, panic>>
       ELSE /\ pc' = "abort" /\ panic' = slice_panic
            /\ UNCHANGED <<ibuf, ipos>>
    /\ UNCHANGED <<inputVars, unitVars, diffVars, outVars, ipVars, inplace_out, runVars, codecVars>>

\* buf.truncate(version_size); the driver keeps the result and turns to the
\* next policy.
ApplyInplaceFinish ==
    /\ pc = "apply" /\ ipos = Len(result)
    /\ inplace_out' = inplace_out @@ (policy :> SubSeq(ibuf, 1, Min(version_size, Len(ibuf))))
    /\ results' = results @@ (policy :> result)
    /\ IF policy = Policies[1]
       THEN policy' = Policies[2] /\ pc' = "convert"
       ELSE policy' = policy /\ pc' = "done"
    /\ UNCHANGED <<inputVars, unitVars, panic, diffVars, outVars, copy_info, add_info, adj, in_deg,
                   scc_id, scc_list, scc_active, removed, topo_order, color, scc_ptr,
                   scan_pos, heap, processed, stats, fallback, result, ibuf, ipos,
                   runVars, codecVars>>

Inplace == MakeInplaceStart \/ KahnStep
Apply == ApplyInplaceStart \/ ApplyInplaceStep \/ ApplyInplaceFinish

Next == Diff \/ ApplyDelta \/ PlaceCommands \/ Inplace \/ Apply
Spec == Init /\ [][Next]_vars

\* ---- the same diff call issued a second time
Rerun ==
    /\ pc = "diffdone" /\ run = 1
    /\ first' = Some(commands) /\ run' = 2
    /\ pc' = "start" /\ commands' = <<>> /\ buf' = <<>>
    /\ tab_q' = 0 /\ cap' = 0 /\ f_size' = 0 /\ m' = 0 /\ k' = 0
    /\ h_r_ht' = <<>> /\ h_v_ht' = <<>>
    /\ h_r_sp' = SplayTree_new /\ h_v_sp' = SplayTree_new
    /\ ver' = 0 /\ r_c' = 0 /\ v_c' = 0 /\ v_s' = 0
    /\ rh_v' = None /\ rh_v_pos' = 0 /\ rh_r' = None /\ rh_r_pos' = 0
    /\ dbg_positions' = 0
    /\ UNCHANGED <<inputVars, unitVars, panic, outVars, ipVars, applyVars, codecVars>>

InitRuns == Init /\ algorithm \in Algorithms
NextRuns == Diff \/ Rerun
SpecRuns == InitRuns /\ [][NextRuns]_vars

\* ---- the container round trip
HashLen == 16
CodecHashes == {[i \in 1..HashLen |-> 0], [i \in 1..HashLen |-> 255]}
CodecCommands ==
    {PlacedCopy(src, dst, length) : src \in {0, 888}, dst \in {0, 3}, length \in {1, 488}}
    \cup {PlacedAdd(dst, data) : dst \in {0, 65536}, data \in {<<>>, <<100, 101, 102>>}}
CodecLists == UNION {[1..len -> CodecCommands] : len \in 0..MaxCodec}

InitCodec ==
    /\ SetInput(Input(<<>>, <<>>, "codec", 1, 0, DELTA_BUF_CAP, FALSE))
    /\ pc = "encode" /\ commands = <<>>
    /\ DiffInit
    /\ RestInit
    /\ enc_commands \in CodecLists
    /\ enc_inplace \in BOOLEAN
    /\ enc_version_size \in {0, 491}
    /\ src_hash \in CodecHashes /\ dst_hash \in CodecHashes
    /\ wire = <<>> /\ decoded = None

pipelineVars == <<inputVars, unitVars, panic, diffVars, outVars, ipVars, applyVars, runVars>>

Encode ==
    /\ pc = "encode"
    /\ wire' = encode_delta(enc_commands, enc_inplace, enc_version_size)
    /\ pc' = "encoded"
    /\ UNCHANGED <<pipelineVars, enc_commands, enc_inplace, enc_version_size, src_hash,
                   dst_hash, decoded>>

Decode ==
    /\ pc \in {"encoded", "received"}
    /\ decoded' = decode_delta(wire)
    /\ pc' = "decoded"
    /\ UNCHANGED <<pipelineVars, enc_commands, enc_inplace, enc_version_size, src_hash,
                   dst_hash, wire>>

NextCodec == Encode \/ Decode
SpecCodec == InitCodec /\ [][NextCodec]_vars

\* ---- a container that reaches decode_delta cut short or with a byte changed
WireBytes == {0, 1, 2, 3}

Received(data) ==
    {Slice(data, 0, n) : n \in 0..Len(data)}
    \cup {Slice(data, 0, i) \o <<b>> \o Slice(data, i + 1, Len(data)) :
            i \in 0..(Len(data) - 1), b \in WireBytes}

InitWire == InitCodec /\ src_hash = [i \in 1..HashLen |-> 0] /\ dst_hash = src_hash

Receive ==
    /\ pc = "encoded"
    /\ wire' \in Received(wire)
    /\ pc' = "received"
    /\ UNCHANGED <<pipelineVars, enc_commands, enc_inplace, enc_version_size, src_hash,
                   dst_hash, decoded>>

IsInplaceDelta ==
    /\ pc \in {"received", "decoded"} /\ call = None
    /\ call' = Some("is_inplace_delta")
    /\ ret' = is_inplace_delta(wire)
    /\ UNCHANGED <<inputVars, pc, panic, diffVars, outVars, ipVars, applyVars, runVars,
                   codecVars>>

NextWire == Encode \/ Receive \/ IsInplaceDelta \/ Decode
SpecWire == InitWire /\ [][NextWire]_vars

\* ---- the appliers handed placed commands and a version size by a caller
notUnit == <<inputVars, pc, panic, diffVars, outVars, ipVars, applyVars, runVars,
             codecVars>>

PlacedCommands ==
    {PlacedCopy(src, dst, length) :
        src \in 0..MaxApply, dst \in 0..MaxApply, length \in 0..MaxApply}
    \cup {PlacedAdd(dst, data) : dst \in 0..MaxApply, data \in {[i \in 1..len |-> 1] : len \in 0..MaxApply}}
PlacedLists == UNION {[1..len -> PlacedCommands] : len \in 0..MaxPlaced}

InitApply ==
    /\ \E r \in Strings(MaxApply) :
          SetInput(Input(r, <<>>, "apply", 1, 0, DELTA_BUF_CAP, FALSE))
    /\ pc = "unit" /\ commands = <<>>
    /\ DiffInit
    /\ RestInit
    /\ enc_commands \in PlacedLists
    /\ enc_version_size \in 0..MaxApply
    /\ enc_inplace = FALSE /\ src_hash = <<>> /\ dst_hash = <<>>
    /\ wire = <<>> /\ decoded = None

\* let mut out = vec![0u8; version_size]; apply_placed_to(r, &placed, &mut out)
ApplyPlacedTo ==
    /\ pc = "unit" /\ algorithm = "apply" /\ call = None
    /\ call' = Some("apply_placed_to")
    /\ ret' = apply_placed_to(R, enc_commands, zeros(enc_version_size), 0)
    /\ UNCHANGED notUnit

ApplyDeltaInplace ==
    /\ pc = "unit" /\ algorithm = "apply" /\ call = None
    /\ call' = Some("apply_delta_inplace")
    /\ ret' = apply_delta_inplace(R, enc_commands, enc_version_size)
    /\ UNCHANGED notUnit

NextApply == ApplyPlacedTo \/ ApplyDeltaInplace
SpecApply == InitApply /\ [][NextApply]_vars

\* ---- a rolling hash created at offset 0 and slid to the end of its data
HashBytes == {0, 255}
HashData(pp) == UNION {[1..len -> HashBytes] : len \in pp..(pp + MaxRolls)}

InitHash ==
    /\ \E pp \in 1..MaxHashP : \E data \in HashData(pp) :
          SetInput(Input(data, <<>>, "hash", pp, 0, DELTA_BUF_CAP, FALSE))
    /\ pc = "unit" /\ commands = <<>>
    /\ DiffInit
    /\ RestInit
    /\ CodecIdle

notRollingHash == <<inputVars, pc, tableVars, ver, r_c, v_c, v_s, rh_v, rh_v_pos,
                    dbg_positions, commands, buf, outVars, ipVars, applyVars, runVars,
                    codecVars, ret>>

\* let mut rh = RollingHash::new(data, 0, p)
RollingHashNew ==
    /\ pc = "unit" /\ algorithm = "hash" /\ call = None
    /\ call' = Some("RollingHash")
    /\ rh_r' = Some(RollingHash_new_u64(R, 0, p))
    /\ rh_r_pos' = 0
    /\ UNCHANGED <<notRollingHash, panic>>

\* rh.roll(data[i - 1], data[i + p - 1]) for i = rh_r_pos + 1; a subtraction
\* that underflows aborts a build with overflow checks.
Roll ==
    /\ pc = "unit" /\ algorithm = "hash" /\ call = Some("RollingHash")
    /\ panic = ""
    /\ rh_r_pos + p < Len(R)
    /\ \E rh \in {roll_u64(rh_r.val, At(R, rh_r_pos), At(R, rh_r_pos + p))} :
          /\ rh_r' = Some(rh)
          /\ panic' = IF rh.underflow THEN "attempt to subtract with overflow" ELSE ""
    /\ rh_r_pos' = rh_r_pos + 1
    /\ UNCHANGED <<notRollingHash, call>>

NextHash == RollingHashNew \/ Roll
SpecHash == InitHash /\ [][NextHash]_vars

\* ---- is_prime and next_prime called on a table size n, held in q
InitPrime ==
    /\ \E n \in 0..MaxPrime :
          SetInput(Input(<<>>, <<>>, "prime", 1, n, DELTA_BUF_CAP, FALSE))
    /\ pc = "unit" /\ commands = <<>>
    /\ DiffInit
    /\ RestInit
    /\ CodecIdle

\* is_prime(n): one of the answers its random draws can give
IsPrime ==
    /\ pc = "unit" /\ algorithm = "prime" /\ call = None
    /\ call' = Some("is_prime")
    /\ ret' \in is_prime(q)
    /\ UNCHANGED notUnit

NextPrime ==
    /\ pc = "unit" /\ algorithm = "prime" /\ call = None
    /\ call' = Some("next_prime")
    /\ ret' \in next_prime(q)
    /\ UNCHANGED notUnit

NextPrimes == IsPrime \/ NextPrime
SpecPrime == InitPrime /\ [][NextPrimes]_vars

\* ---- one SplayTree used through find, insert_or_get and insert
InitSplay ==
    /\ SetInput(Input(<<>>, <<>>, "splay", 1, 0, DELTA_BUF_CAP, TRUE))
    /\ pc = "unit" /\ commands = <<>>
    /\ DiffInit
    /\ RestInit
    /\ CodecIdle

notSplay == <<inputVars, pc, panic, tab_q, cap, f_size, m, k, h_r_ht, h_v_ht, h_v_sp,
              scanVars, commands, buf, outVars, ipVars, applyVars, runVars, codecVars>>

SplayCall(op, key, value) == Some([op |-> op, key |-> key, value |-> value])

\* tree.find(key); the value is copied out of the returned reference
SplayFind ==
    /\ pc = "unit" /\ algorithm = "splay"
    /\ \E key \in 0..MaxKey :
          /\ call' = SplayCall("find", key, 0)
          /\ \E f \in {find(h_r_sp, key)} : h_r_sp' = f.tree /\ ret' = f.res
    /\ UNCHANGED notSplay

\* *tree.insert_or_get(key, value): the reference returned is to the value at
\* the root
SplayInsertOrGet ==
    /\ pc = "unit" /\ algorithm = "splay"
    /\ \E key \in 0..MaxKey, value \in 0..MaxValue :
          /\ call' = SplayCall("insert_or_get", key, value)
          /\ \E t \in {insert_or_get(h_r_sp, key, value)} :
                h_r_sp' = t /\ ret' = Some(t.root.value)
    /\ UNCHANGED notSplay

SplayInsert ==
    /\ pc = "unit" /\ algorithm = "splay"
    /\ \E key \in 0..MaxKey, value \in 0..MaxValue :
          /\ call' = SplayCall("insert", key, value)
          /\ h_r_sp' = insert(h_r_sp, key, value)
          /\ ret' = None
    /\ UNCHANGED notSplay

NextSplay == SplayFind \/ SplayInsertOrGet \/ SplayInsert
SpecSplay == InitSplay /\ [][NextSplay]_vars

\* ---- make_inplace called alone, under Localmin, on lists of copies of
\* positive length over a fixed R
CopyLists(r) ==
    UNION {[1..len -> {c \in {Copy(o, l) : o \in 0..Len(r), l \in 1..MaxCopyLen} :
                          c.offset + c.length <= Len(r)}] : len \in 0..MaxCopies}

InitInplace ==
    /\ SetInput(Input([i \in 1..MaxInplaceR |-> i % 2], <<>>, "given", 1, 0,
                      DELTA_BUF_CAP, FALSE))
    /\ commands \in CopyLists(R)
    /\ pc = "convert"
    /\ DiffInit
    /\ panic = "" /\ out = <<>> /\ placed = <<>>
    /\ policy = "Localmin" /\ InplaceInit /\ results = <<>>
    /\ ibuf = <<>> /\ ipos = 0 /\ inplace_out = <<>>
    /\ run = 1 /\ first = None
    /\ call = None /\ ret = None
    /\ CodecIdle

NextInplace == MakeInplaceStart \/ KahnStep
SpecInplace == InitInplace /\ [][NextInplace]_vars

\* ------------------------------------------------------------------ claims
Returned == pc \in {"diffdone", "applied", "convert", "kahn", "placed", "apply", "done"}
Applied == pc \in {"applied", "convert", "kahn", "placed", "apply", "done"}
IsDiffCall == algorithm \in Algorithms

RECURSIVE add_bytes(_)
add_bytes(cmds) ==
    IF cmds = <<>> THEN 0
    ELSE (IF Head(cmds).type = "Add" THEN Len(Head(cmds).data) ELSE 0)
         + add_bytes(Tail(cmds))

\* C1: for p >= 2 (and a lookback buffer that can hold a command) every
\* algorithm returns a command list, every Copy of it
\* reads inside R, and apply_delta on it gives back V byte for byte.
C1_RoundTrip ==
    (IsDiffCall /\ p >= 2 /\ buf_cap >= 1) =>
        /\ pc # "abort"
        /\ Returned => \A i \in DOMAIN commands :
                          commands[i].type = "Copy" =>
                              commands[i].offset + commands[i].length <= Len(R)
        /\ Applied => out = V

\* C2: for p >= 2 and each policy, the commands make_inplace returns for
\* the algorithm's delta, applied in order inside one buffer that starts as
\* R, leave exactly V.
C2_InplaceRoundTrip ==
    (IsDiffCall /\ p >= 2 /\ buf_cap >= 1) =>
        /\ pc # "abort"
        /\ \A pol \in DOMAIN inplace_out : inplace_out[pol] = V
        /\ pc = "done" => DOMAIN inplace_out = {Policies[1], Policies[2]}

\* The byte intervals a placed command writes and reads.
write_iv(c) == {b \in 0..(c.dst + cmd_len(c) - 1) : b >= c.dst}
read_iv(c) == IF c.type = "Copy" THEN {b \in 0..(c.src + c.length - 1) : b >= c.src} ELSE {}

\* C3: in the sequence make_inplace returns, no command writes into the
\* read interval of a Copy that comes later, and while the sequence is
\* applied to a buffer that starts as R, the bytes the next Copy reads still
\* hold R's values.
C3_ReadBeforeWrite ==
    /\ pc \in {"placed", "apply"} =>
          \A i, j \in DOMAIN result :
              i < j => write_iv(result[i]) \cap read_iv(result[j]) = {}
    /\ (pc = "apply" /\ ipos < Len(result) /\ At(result, ipos).type = "Copy") =>
          LET c == At(result, ipos)
          IN /\ c.src + c.length <= Len(R)
             /\ Slice(ibuf, c.src, c.src + c.length) = Slice(R, c.src, c.src + c.length)

\* C3 witness: a cycle was broken and a Copy is about to run after earlier
\* commands of the converted sequence have written the buffer.
C3_Witness ==
    /\ pc = "apply" /\ stats.cycles_broken >= 1
    /\ ipos >= 1 /\ ipos < Len(result) /\ At(result, ipos).type = "Copy"
    /\ ibuf # R \o zeros(Len(ibuf) - Len(R))

\* C4: decoding what encode_delta wrote for (C, flag, |V|, H_r, H_v)
\* succeeds and returns exactly these five, the commands in order.
C4_CodecRoundTrip ==
    pc = "decoded" =>
        decoded = [ok |-> TRUE, commands |-> enc_commands, inplace |-> enc_inplace,
                   version_size |-> enc_version_size, src_hash |-> src_hash,
                   dst_hash |-> dst_hash]

\* The write intervals of a placed sequence are pairwise disjoint and cover
\* exactly [0, total).
WritesPartition(seq, total) ==
    /\ \A i \in DOMAIN seq : write_iv(seq[i]) \subseteq 0..(total - 1)
    /\ \A b \in 0..(total - 1) : \E i \in DOMAIN seq : b \in write_iv(seq[i])
    /\ \A i, j \in DOMAIN seq : i # j => write_iv(seq[i]) \cap write_iv(seq[j]) = {}

\* Each placed command carries its command and the output offset reached
\* before it.
RunningOffsets(cmds, pl) ==
    /\ Len(pl) = Len(cmds)
    /\ \A i \in DOMAIN pl :
          /\ pl[i].dst = output_size(SubSeq(cmds, 1, i - 1))
          /\ pl[i].type = cmds[i].type
          /\ cmd_len(pl[i]) = cmd_len(cmds[i])

\* C5: the write intervals of place_commands(C) and of
\* make_inplace(R, C, policy) are pairwise disjoint and cover exactly
\* [0, output_size(C)); place_commands assigns the running output offset.
C5_WritePartition ==
    /\ pc \in {"convert", "kahn", "placed", "apply", "done"} =>
          /\ RunningOffsets(commands, placed)
          /\ WritesPartition(placed, output_size(commands))
    /\ pc \in {"placed", "apply"} => WritesPartition(result, output_size(commands))
    /\ \A pol \in DOMAIN results : WritesPartition(results[pol], output_size(commands))

\* C5 witness: a conversion that broke a cycle and moved a copy returned its
\* sequence.
C5_Witness ==
    /\ pc = "placed" /\ stats.cycles_broken >= 1 /\ stats.num_copies >= 1
    /\ Len(result) >= 3
    /\ result # placed

\* C6: when R = V every algorithm returns a list of Copy commands only, and
\* the copied ranges concatenated give V.
C6_IdenticalOnlyCopies ==
    (IsDiffCall /\ R = V /\ buf_cap >= 1) =>
        /\ pc # "abort"
        /\ Returned => \A i \in DOMAIN commands : commands[i].type = "Copy"
        /\ Applied => out = V

C8_Deterministic ==
    (run = 2 /\ pc = "diffdone") => commands = first.val

\* C9: for p >= 1, every q, every buf_cap and either backend, diff returns,
\* and make_inplace returns for the list diff returned: no call aborts.
C9_Total == IsDiffCall => (pc # "abort" /\ panic = "")

\* What is left of a scan loop: for one-pass the unencoded suffix of V
\* first and the distance of the farther cursor from its end second; for
\* greedy and correcting the distance of v_c from the end of V.
ScanRank ==
    IF algorithm = "onepass"
    THEN (Len(V) - v_s) * (Max(Len(V), Len(R)) + 2)
         + Max(Len(V) + 1 - v_c, Len(R) + 1 - r_c)
    ELSE Len(V) + 1 - v_c

ScanProgress == (pc = "scan" /\ pc' = "scan") => (ScanRank' < ScanRank /\ ScanRank' >= 0)

\* An iteration of the Kahn loop that does not abort removes at least one of
\* the vertices that are left.
KahnProgress ==
    (pc = "kahn" /\ pc' # "abort") =>
        (processed' > processed /\ processed' <= Len(copy_info))

\* C10: every call of diff and make_inplace comes to an end: each iteration
\* of a scan loop lowers the non-negative ScanRank, although a one-pass match
\* may move v_c and r_c back, and each iteration of the Kahn loop removes at
\* least one vertex, of which there are finitely many.
C10_Terminates == [][ScanProgress /\ KahnProgress]_vars

\* C10 witness: a one-pass call whose first match moved r_c back below the
\* position it had reached came to its end.
C10_Witness ==
    /\ pc = "done" /\ algorithm = "onepass"
    /\ ver = 1 /\ r_c < dbg_positions - 1

\* ---- the container as the format lays it out
\* What encode_delta returned for the caller's arguments.
Pristine == encode_delta(enc_commands, enc_inplace, enc_version_size)

\* The bytes one command takes in the stream: its tag, its fields, its data.
wire_len(c) ==
    IF c.type = "Copy" THEN 1 + DELTA_COPY_PAYLOAD ELSE 1 + DELTA_ADD_HEADER + Len(c.data)

\* The offset of the tag of the i-th command; i = Len(cmds) + 1 gives the
\* offset of the END tag.
RECURSIVE tag_pos(_, _)
tag_pos(cmds, i) ==
    IF i = 1 THEN DELTA_HEADER_SIZE ELSE tag_pos(cmds, i - 1) + wire_len(cmds[i - 1])

\* The received bytes are the first Len(wire) bytes of the container.
IsPrefix == wire = Slice(Pristine, 0, Len(wire))

\* The received bytes stop inside the i-th command: its tag arrived, its last
\* byte did not.
StopsInside(i) ==
    IsPrefix /\ tag_pos(enc_commands, i) < Len(wire)
             /\ Len(wire) < tag_pos(enc_commands, i + 1)

\* C11: when a container with a valid header stops in the middle of a
\* command (a COPY tag with fewer than 12 bytes after it, an ADD tag with
\* fewer than 8, or an ADD with less data than it declares), decode_delta
\* returns UnexpectedEof and no command list.
C11_TruncatedIsEof ==
    (pc = "decoded" /\ \E i \in DOMAIN enc_commands : StopsInside(i)) =>
        decoded = Err("UnexpectedEof")

\* C11 witness: a container cut inside the data of an ADD was decoded.
C11_Witness ==
    /\ pc = "decoded"
    /\ \E i \in DOMAIN enc_commands :
          /\ StopsInside(i) /\ enc_commands[i].type = "Add"
          /\ Len(wire) > tag_pos(enc_commands, i) + DELTA_ADD_HEADER + 1

\* A tag other than END, COPY and ADD stands where a command of the
\* container starts, the bytes before it being the container's.
UnknownTag ==
    /\ Len(wire) = Len(Pristine)
    /\ \E i \in 1..(Len(enc_commands) + 1) :
          /\ wire = [Pristine EXCEPT ![tag_pos(enc_commands, i) + 1] = wire[tag_pos(enc_commands, i) + 1]]
          /\ wire[tag_pos(enc_commands, i) + 1] \notin {DELTA_CMD_END, DELTA_CMD_COPY, DELTA_CMD_ADD}

\* C12: decode_delta returns InvalidFormat for an input shorter than the
\* header, for one whose first four bytes are not the magic encode_delta
\* emits, for a container whose version byte was set to 0x01, and for one
\* in which an unknown command tag is reached.
C12_InvalidFormat ==
    pc = "decoded" =>
        /\ (Len(wire) < DELTA_HEADER_SIZE \/ Slice(wire, 0, 4) # Slice(Pristine, 0, 4))
              => decoded = Err("InvalidFormat")
        /\ wire = [Pristine EXCEPT ![4] = 1] => decoded = Err("InvalidFormat")
        /\ UnknownTag => decoded = Err("InvalidFormat")

C14_EndTerminates ==
    /\ pc = "encoded" =>
          /\ tag_pos(enc_commands, Len(enc_commands) + 1) = Len(wire) - 1
          /\ wire[Len(wire)] = DELTA_CMD_END
          /\ \A i \in DOMAIN enc_commands :
                At(wire, tag_pos(enc_commands, i)) # DELTA_CMD_END
    /\ (pc = "decoded" /\ IsPrefix /\ decoded.ok) => Len(wire) = Len(Pristine)

\* C15: encode_delta writes 'D','L','T',0x02, the flags byte, version_size
\* as a big-endian u32, src_hash at 9..25, dst_hash at 25..41 and the
\* command stream from offset 41.
C15_ContainerV2 ==
    pc = "encoded" =>
        /\ Slice(wire, 0, 4) = <<68, 76, 84, 2>>
        /\ wire[5] = (IF enc_inplace THEN 1 ELSE 0)
        /\ Slice(wire, 5, 9) = to_be_bytes(enc_version_size)
        /\ Len(wire) >= 41
        /\ Slice(wire, 9, 25) = src_hash
        /\ Slice(wire, 25, 41) = dst_hash
        /\ Slice(wire, 41, Len(wire)) = encode_commands(enc_commands) \o <<DELTA_CMD_END>>

Overflows(c) == cmd_len(c) > 0 /\ c.dst + cmd_len(c) > enc_version_size

\* C17: whenever some placed command's write interval [dst, dst+len) extends
\* past version_size, apply_placed_to on an output of version_size bytes fails,
\* and so does apply_delta_inplace; neither returns an output.
C17_OverflowDetected ==
    (/\ call \in {Some("apply_placed_to"), Some("apply_delta_inplace")}
     /\ \E i \in DOMAIN enc_commands : Overflows(enc_commands[i]))
    => ~ret.ok

\* ---- the rolling hash against the fingerprint computed from scratch
\* The old byte's term sub of the roll that produced the current value.
LastSub == mod_mersenne_u128(wide_mul(u128(At(R, rh_r_pos - 1)), rh_r.val.bp))

\* C18: a RollingHash created at offset 0 and rolled i times has the value
\* fingerprint(data, i, p); every value it takes is in [0, 2^61 - 1), and no
\* subtraction in roll underflows.
C18_RollIsFingerprint ==
    call = Some("RollingHash") =>
        /\ rh_r.val.value = fingerprint_u64(R, rh_r_pos, p)
        /\ ~wide_ge(rh_r.val.value, HASH_MOD)
        /\ ~rh_r.val.underflow /\ panic = ""

\* The hash was rolled twice, the last roll through the branch that adds the
\* modulus back (the window before it hashed below its first byte's term,
\* which takes a window of nine bytes or more).
C18_Witness ==
    /\ call = Some("RollingHash") /\ rh_r_pos = 2
    /\ ~wide_ge(fingerprint_u64(R, rh_r_pos - 1, p), LastSub)
    /\ rh_r.val.value = fingerprint_u64(R, rh_r_pos, p)

\* ---- primality by trial division
TrialPrime(n) == n >= 2 /\ \A d \in 2..(n - 1) : n % d # 0

\* C19: is_prime(n) answers as trial division does, whatever witnesses it
\* draws, and next_prime(n) returns the smallest prime greater than or equal
\* to n (2 for n <= 2).
C19_PrimeExact ==
    /\ call = Some("is_prime") => ret = TrialPrime(q)
    /\ call = Some("next_prime") =>
          /\ ret >= q /\ TrialPrime(ret)
          /\ \A j \in q..(ret - 1) : ~TrialPrime(j)

\* ---- the tree as a set of (key, value) pairs
RECURSIVE Entries(_)
Entries(n) ==
    IF n.isnull THEN {}
    ELSE Entries(n.left) \cup {<<n.key, n.value>>} \cup Entries(n.right)

KeysOf(n) == {e[1] : e \in Entries(n)}

\* Every key of a left subtree is below its node's key, every key of a right
\* subtree above it.
RECURSIVE IsBST(_)
IsBST(n) ==
    \/ n.isnull
    \/ /\ \A x \in KeysOf(n.left) : x < n.key
       /\ \A x \in KeysOf(n.right) : x > n.key
       /\ IsBST(n.left) /\ IsBST(n.right)

Stored(n, key) == {e[2] : e \in {x \in Entries(n) : x[1] = key}}

\* One call, from the tree before it to the tree after it.
FiniteMapStep ==
    LET before == Entries(h_r_sp.root)
        after == Entries(h_r_sp'.root)
        c == call'.val
        had == c.key \in KeysOf(h_r_sp.root)
    IN /\ IsBST(h_r_sp'.root)
       /\ h_r_sp'.len = Cardinality(KeysOf(h_r_sp'.root))
       /\ Cardinality(after) = Cardinality(KeysOf(h_r_sp'.root))
       /\ c.op = "find" =>
             /\ after = before
             /\ ret' = IF had THEN Some(CHOOSE x \in Stored(h_r_sp.root, c.key) : TRUE)
                       ELSE None
       /\ c.op = "insert_or_get" =>
             /\ after = IF had THEN before ELSE before \cup {<<c.key, c.value>>}
             /\ ret' = Some(CHOOSE x \in Stored(h_r_sp'.root, c.key) : TRUE)
       /\ c.op = "insert" =>
             after = {e \in before : e[1] # c.key} \cup {<<c.key, c.value>>}

\* C20: across any sequence of calls the tree is a finite map: find returns
\* the stored value of its key or nothing and changes no key or value;
\* insert_or_get stores its value only if the key is absent and returns the
\* value stored; insert overwrites; len is the number of distinct keys; the
\* tree stays a binary search tree.
C20_FiniteMap == [][FiniteMapStep]_vars

\* insert_or_get was offered a value for a key that already held another one
\* in a full tree, and returned the one held.
C20_Witness ==
    /\ call # None /\ algorithm = "splay"
    /\ call.val.op = "insert_or_get"
    /\ ret # Some(call.val.value)
    /\ h_r_sp.len = MaxKey + 1
    /\ ~h_r_sp.root.left.isnull /\ ~h_r_sp.root.right.isnull

\* ---- the simple cost model: a Copy costs 1, an Add of n bytes costs n
RECURSIVE simple_cost(_)
simple_cost(cmds) ==
    IF cmds = <<>> THEN 0
    ELSE (IF Head(cmds).type = "Copy" THEN 1 ELSE Len(Head(cmds).data))
         + simple_cost(Tail(cmds))

IsSubstring(r, s) == \E o \in 0..(Len(r) - Len(s)) : Slice(r, o, o + Len(s)) = s

SetMin(S) == CHOOSE x \in S : \A y \in S : x <= y

\* The least cost of a command list that writes v[i..] from r with Copies of
\* at least pp bytes: the byte at i is added, or a Copy starts at i.
RECURSIVE OptCost(_, _, _, _)
OptCost(r, v, pp, i) ==
    IF i = Len(v) THEN 0
    ELSE SetMin({1 + OptCost(r, v, pp, i + 1)}
                \cup {1 + OptCost(r, v, pp, i + len) :
                        len \in {n \in pp..(Len(v) - i) :
                                    IsSubstring(r, Slice(v, i, i + n))}})

\* C21: the command list diff_greedy returns costs no more, a Copy counted 1
\* and an Add of n bytes counted n, than any command list that reconstructs
\* V from R with Copies of at least p bytes.
C21_GreedyOptimal ==
    (algorithm = "greedy" /\ Returned) => simple_cost(commands) <= OptCost(R, V, p, 0)

\* C22: for every R and every algorithm an empty V gives the empty command
\* list, which apply_delta turns into the empty string, and an empty R with
\* a non-empty V gives the single command Add(V).
C22_EmptyInputs ==
    IsDiffCall =>
        /\ V = <<>> =>
              /\ pc # "abort"
              /\ Returned => commands = <<>>
              /\ Applied => out = <<>>
        /\ (R = <<>> /\ V # <<>>) =>
              /\ pc # "abort"
              /\ Returned => commands = <<Add(V)>>

\* The read and the write interval of a copy_info entry.
copy_read_iv(c) == {b \in 0..(c.src + c.length - 1) : b >= c.src}
copy_write_iv(c) == {b \in 0..(c.dst + c.length - 1) : b >= c.dst}
crwi_edge(i, j) ==
    i # j /\ copy_read_iv(copy_info[i]) \cap copy_write_iv(copy_info[j]) # {}

\* C23: the sweep of make_inplace builds exactly the CRWI edge set: for all
\* copies i and j, j occurs in adj[i] once if i # j and the read interval of
\* i intersects the write interval of j, and not at all otherwise; before
\* Kahn's loop removes anything, in_deg[j] is the number of such i.
C23_ExactEdgeSet ==
    (pc = "kahn" /\ copy_info # <<>>) =>
        /\ \A i, j \in DOMAIN copy_info :
              count_in(adj[i], j - 1) = IF crwi_edge(i, j) THEN 1 ELSE 0
        /\ processed = 0 =>
              \A j \in DOMAIN copy_info :
                  in_deg[j] = Cardinality({i \in DOMAIN copy_info : crwi_edge(i, j)})

\* The Add a converted Copy becomes.
converted(r, c) == PlacedAdd(c.dst, Slice(r, c.src, c.src + c.length))

\* The bijections of 1..n.
Perms(n) == {f \in [1..n -> 1..n] : \A x, y \in 1..n : f[x] = f[y] => x = y}

\* C24: the sequence make_inplace returns holds each command of the input
\* exactly once and nothing else: a Copy either unchanged or as the Add of
\* R[src..src+length] at the same dst, an Add unchanged; num_copies and
\* copies_converted add up to the number of input copies.
C24_EachCommandOnce ==
    pc \in {"placed", "apply"} =>
        LET inp == place_commands(commands)
        IN /\ Len(result) = Len(inp)
           /\ \E f \in Perms(Len(inp)) :
                 \A x \in DOMAIN inp :
                     \/ result[f[x]] = inp[x]
                     \/ /\ inp[x].type = "Copy" /\ inp[x].src + inp[x].length <= Len(R)
                        /\ result[f[x]] = converted(R, inp[x])
           /\ stats.num_copies + stats.copies_converted
                 = Cardinality({x \in DOMAIN inp : inp[x].type = "Copy"})
           /\ stats.num_copies = Cardinality({x \in DOMAIN result : result[x].type = "Copy"})

\* C24 witness: make_inplace has returned a sequence with a kept Copy, a
\* converted Copy and an Add of the input.
C24_Witness ==
    /\ pc = "placed"
    /\ stats.num_copies >= 1 /\ stats.copies_converted >= 1
    /\ stats.num_adds > stats.copies_converted

\* The vertex the step converts: removed by it without entering topo_order.
Victims ==
    {v \in 0..(Len(copy_info) - 1) :
        /\ ~At(removed, v) /\ At(removed', v)
        /\ \A x \in DOMAIN topo_order' : topo_order'[x] # v}

\* The simple cycles of the CRWI graph among the vertices of S (0-based),
\* each as the sequence of its vertices.
LiveCycles(S) ==
    {c \in UNION {[1..len -> S] : len \in 2..Cardinality(S)} :
        /\ \A x, y \in DOMAIN c : c[x] = c[y] => x = y
        /\ \A x \in DOMAIN c : crwi_edge(c[x] + 1, c[(x % Len(c)) + 1] + 1)}

IsCycleMin(v, c) ==
    /\ \E x \in DOMAIN c : c[x] = v
    /\ \A x \in DOMAIN c :
          c[x] = v \/ pair_less(<<At(copy_info, v).length, v>>,
                                <<At(copy_info, c[x]).length, c[x]>>)

\* C25: under Localmin, the vertex a stalled step converts lies on a
\* directed cycle of the CRWI graph among the vertices not removed when it
\* is chosen, and it has the least (length, index) of the cycle's vertices.
C25_VictimOnCycle ==
    [][(pc = "kahn" /\ policy = "Localmin") =>
          \A v \in Victims :
              \E c \in LiveCycles({i \in 0..(Len(copy_info) - 1) : ~At(removed', i)}
                                  \cup {v}) :
                  IsCycleMin(v, c)]_vars

\* C30: under Localmin the safety fallback of make_inplace is never taken:
\* whenever Kahn's loop stalls, find_cycle_in_scc returns a cycle for some
\* SCC at or after scc_ptr, so no victim is chosen by the scan for the
\* first live vertex and no call ends in the unwrap of an empty search.
C30_NoFallback ==
    policy = "Localmin" => ~fallback /\ panic # unwrap_none

\* C30 witness: a call that stalled at least twice, with colour-2 marks
\* left by earlier searches, scan_pos advanced and scc_ptr moved forward.
C30_Witness ==
    /\ policy = "Localmin" /\ pc = "placed" /\ stats.cycles_broken >= 2
    /\ \E i \in DOMAIN color : color[i] = 2
    /\ scc_ptr >= 1 /\ ~fallback

\* diff_greedy as a whole: the scan loop run to its end.
RECURSIVE greedy_run(_, _, _, _, _)
greedy_run(r, v, pp, splayed, st) ==
    IF st.pc = "scan"
    THEN greedy_run(r, v, pp, splayed, greedy_iter(r, v, seed_len(pp), splayed, st))
    ELSE st

diff_greedy(r, v, pp, splayed) ==
    greedy_run(r, v, pp, splayed,
        greedy_start(r, v, pp, splayed,
            [pc |-> "start", panic |-> "", tab_q |-> 0, cap |-> 0, f_size |-> 0,
             m |-> 0, k |-> 0, h_r_ht |-> <<>>, h_v_ht |-> <<>>,
             h_r_sp |-> SplayTree_new, h_v_sp |-> SplayTree_new,
             ver |-> 0, r_c |-> 0, v_c |-> 0, v_s |-> 0,
             rh_v |-> None, rh_v_pos |-> 0, rh_r |-> None, rh_r_pos |-> 0,
             dbg_positions |-> 0, commands |-> <<>>, buf |-> <<>>])).commands

\* The V position a command of the list starts at.
RECURSIVE v_pos(_, _)
v_pos(cmds, x) == IF x = 1 THEN 0 ELSE v_pos(cmds, x - 1) + cmd_len(cmds[x - 1])

\* The R offsets whose seed equals V[vc..vc+pp], and the length of the
\* longest common run of V at vc and R at o.
SeedOffsets(vc, pp) ==
    {o \in 0..(Len(R) - pp) : Slice(R, o, o + pp) = Slice(V, vc, vc + pp)}
MatchLen(vc, o) ==
    CHOOSE n \in 0..Len(V) :
        /\ vc + n <= Len(V) /\ o + n <= Len(R)
        /\ Slice(V, vc, vc + n) = Slice(R, o, o + n)
        /\ ~(/\ vc + n < Len(V) /\ o + n < Len(R)
             /\ At(V, vc + n) = At(R, o + n))

\* C26: every Copy diff_greedy emits for a V position v_c has the length of
\* the longest forward match of V at v_c with R at an offset whose seed
\* equals V[v_c..v_c+p] and the smallest offset that attains it, and the
\* hash-table and the splay backend return the same list.
C26_LongestSmallest ==
    (algorithm = "greedy" /\ Returned) =>
        /\ \A x \in DOMAIN commands :
              commands[x].type = "Copy" =>
                  LET vc == v_pos(commands, x)
                      c == commands[x]
                      S == SeedOffsets(vc, seed_len(p))
                  IN /\ c.offset \in S
                     /\ c.length = MatchLen(vc, c.offset)
                     /\ \A o \in S : MatchLen(vc, o) <= c.length
                     /\ \A o \in S : MatchLen(vc, o) = c.length => c.offset <= o
        /\ commands = diff_greedy(R, V, p, ~use_splay)

\* C26 witness: a returned list with a Copy whose offset is not the first
\* offset with the seed (a later offset matches longer) and for which
\* a later offset attains the same length.
C26_Witness ==
    /\ algorithm = "greedy" /\ Returned
    /\ \E x \in DOMAIN commands :
          /\ commands[x].type = "Copy"
          /\ \E o1, o2 \in SeedOffsets(v_pos(commands, x), seed_len(p)) :
                /\ o1 < commands[x].offset /\ commands[x].offset < o2
                /\ MatchLen(v_pos(commands, x), o2) = commands[x].length

\* What a table holds once entries of other versions are taken as absent:
\* per slot of the flat table, per key of the splay tree.
LiveSlots(table, vr) ==
    [i \in DOMAIN table |->
        IF table[i].is_some /\ table[i].val.ver = vr
        THEN Some(<<table[i].val.fp, table[i].val.off>>) ELSE None]
LiveKeys(tree, vr) ==
    {<<e[1], e[2].off>> : e \in {x \in Entries(tree.root) : x[2].ver = vr}}

\* Insertion into an emptied-at-each-match table: the first entry of a slot
\* (of a key) is kept.
PutIfAbsent(slots, fp, off) ==
    IF fp.is_some /\ ~At(slots, fp.val % tab_q).is_some
    THEN [slots EXCEPT ![(fp.val % tab_q) + 1] = Some(<<fp.val, off>>)]
    ELSE slots
AddIfAbsent(keys, fp, off) ==
    IF fp.is_some /\ ~\E e \in keys : e[1] = fp.val
    THEN keys \cup {<<fp.val, off>>} ELSE keys

\* The fingerprint of the seed at c, when one fits there.
SeedAt(data, c) ==
    IF c + seed_len(p) <= Len(data) THEN Some(fingerprint(data, c, seed_len(p)))
    ELSE None
SeedFps == {fingerprint(V, c, seed_len(p)) : c \in 0..(Len(V) - seed_len(p))}
               \cup {fingerprint(R, c, seed_len(p)) : c \in 0..(Len(R) - seed_len(p))}

\* Where R's scan stood after the last match: the end of the last Copy.
LastCopyEnd ==
    LET c == commands[Len(commands)] IN c.offset + c.length

\* C27: in diff_onepass the version counter acts as emptying both tables at
\* each match.  After a match every lookup of the new version misses, and
\* a later hit returns an offset stored since that match; a step without a
\* match changes each table, entries of older versions taken as absent, by
\* inserting its seed unless the slot (the key) is already taken.
C27_VersionFlush ==
    [][(algorithm = "onepass" /\ pc = "scan" /\ pc' # "abort") =>
          /\ ver >= 1 =>
                \A fp \in SeedFps :
                    /\ onepass_look(h_v_ht, h_v_sp, Some(fp), tab_q, ver, use_splay).res
                          \in {None} \cup {Some(o) : o \in v_s..Len(V)}
                    /\ onepass_look(h_r_ht, h_r_sp, Some(fp), tab_q, ver, use_splay).res
                          \in {None} \cup {Some(o) : o \in LastCopyEnd..Len(R)}
          /\ ver' # ver =>
                /\ ver' = ver + 1
                /\ \A fp \in SeedFps :
                      /\ ~onepass_look(h_v_ht', h_v_sp', Some(fp), tab_q, ver',
                                       use_splay).res.is_some
                      /\ ~onepass_look(h_r_ht', h_r_sp', Some(fp), tab_q, ver',
                                       use_splay).res.is_some
          /\ ver' = ver =>
                IF use_splay
                THEN /\ LiveKeys(h_v_sp', ver) = AddIfAbsent(LiveKeys(h_v_sp, ver), SeedAt(V, v_c), v_c)
                     /\ LiveKeys(h_r_sp', ver) = AddIfAbsent(LiveKeys(h_r_sp, ver), SeedAt(R, r_c), r_c)
                ELSE /\ LiveSlots(h_v_ht', ver) = PutIfAbsent(LiveSlots(h_v_ht, ver), SeedAt(V, v_c), v_c)
                     /\ LiveSlots(h_r_ht', ver) = PutIfAbsent(LiveSlots(h_r_ht, ver), SeedAt(R, r_c), r_c)]_vars

\* C27 witness: after a match, V's flat table holds an entry of the current
\* version while R's still holds one stored under an older version.
C27_Witness ==
    /\ algorithm = "onepass" /\ pc = "scan" /\ ~use_splay /\ ver >= 1
    /\ \E i \in DOMAIN h_v_ht : h_v_ht[i].is_some /\ h_v_ht[i].val.ver = ver
    /\ \E i \in DOMAIN h_r_ht : h_r_ht[i].is_some /\ h_r_ht[i].val.ver < ver

\* How far V before vpos and R before rpos agree, going backwards.
BackLen(vpos, rpos) ==
    CHOOSE j \in 0..Min(vpos, rpos) :
        /\ \A i \in 1..j : At(V, vpos - i) = At(R, rpos - i)
        /\ j = Min(vpos, rpos) \/ At(V, vpos - j - 1) # At(R, rpos - j - 1)

\* The buffer after the walk of a match that starts at v_m: the entries
\* that start before v_m, the last of them cut at v_m when it is an Add
\* that reaches past v_m.
Survivors(b, v_m) ==
    LET s0 == SelectSeq(b, LAMBDA e : e.v_start < v_m)
    IN IF s0 # <<>> /\ s0[Len(s0)].v_end > v_m /\ s0[Len(s0)].cmd.type = "Add"
       THEN [s0 EXCEPT ![Len(s0)] =
                BufEntry(s0[Len(s0)].v_start, v_m, Add(Slice(V, s0[Len(s0)].v_start, v_m)))]
       ELSE s0

\* effective_start: v_s, lowered to the start of every removed entry and to
\* v_m when an Add was cut.
ReclaimedStart(b, v_m, vs) ==
    SetMin({vs} \cup {b[x].v_start : x \in {y \in DOMAIN b : b[y].v_start >= v_m}}
           \cup (IF Survivors(b, v_m) # SelectSeq(b, LAMBDA e : e.v_start < v_m)
                 THEN {v_m} ELSE {}))

\* Emitted commands, then buffered ones, tile V[0..vs) in order.
RECURSIVE Tiles(_, _, _)
Tiles(b, from, to) ==
    IF b = <<>> THEN from = to
    ELSE /\ Head(b).v_start = from
         /\ Head(b).v_end = from + cmd_len(Head(b).cmd)
         /\ Tiles(Tail(b), Head(b).v_end, to)

\* The effect of Step (6b) for the match [v_m, match_end) whose Copy nw is
\* the last entry of the buffer afterwards.
TailCorrected(nw, v_m) ==
    LET s == Survivors(buf, v_m)
        full == Len(s) >= buf_cap
    IN /\ nw.cmd.type = "Copy" /\ ~nw.dummy
       /\ nw.v_end = v_s' /\ nw.v_start = ReclaimedStart(buf, v_m, v_s)
       /\ nw.cmd.length = nw.v_end - nw.v_start
       /\ Slice(R, nw.cmd.offset, nw.cmd.offset + nw.cmd.length)
             = Slice(V, nw.v_start, nw.v_end)
       /\ buf' = Append(IF full THEN Tail(s) ELSE s, nw)
       /\ commands' = IF full THEN Append(commands, Head(s).cmd) ELSE commands
       /\ Tiles(buf', output_size(commands'), v_s')

\* C28: when diff_correcting encodes a match that starts before v_s, the
\* emitted commands stay as they are but for the oldest buffer entry a full
\* buffer gives up; buffer entries wholly inside the match are removed, an
\* Add that reaches into it is cut to [v_start, v_m), a Copy that reaches
\* into it is kept whole; the Copy pushed covers [effective_start,
\* match_end) and reads R at r_m + (effective_start - v_m); emitted and
\* buffered commands tile V[0..match_end) without gap or overlap.
C28_TailCorrection ==
    [][(algorithm = "correcting" /\ pc = "scan" /\ pc' = "scan" /\ v_s' # v_s) =>
          LET nw == buf'[Len(buf')]
              v_m == nw.v_start - BackLen(nw.v_start, nw.cmd.offset)
          IN /\ buf' # <<>>
             /\ v_m < v_s => TailCorrected(nw, v_m)]_vars

\* C28 witness: the scan stands at a match that starts before v_s; encoding
\* it removes a buffer entry and cuts the Add before it.
C28_Witness ==
    /\ algorithm = "correcting" /\ pc = "scan" /\ Len(buf) >= 2
    /\ LET st == correcting_iter(R, V, p, buf_cap, use_splay, DiffState)
       IN /\ st.pc = "scan" /\ st.v_s > v_s
          /\ st.buf[Len(st.buf)].v_start < v_s
          /\ \E x \in DOMAIN buf :
                /\ buf[x].cmd.type = "Add" /\ x < Len(buf)
                /\ \E y \in DOMAIN st.buf :
                      /\ st.buf[y].v_start = buf[x].v_start
                      /\ st.buf[y].v_end < buf[x].v_end

\* C29: in diff_correcting with buf_cap >= 1 the lookback buffer never
\* holds more than buf_cap entries; a command is appended to the output
\* during the scan only by a push onto a full buffer, which leaves the
\* buffer full again, and the output grows at its end only, by entries in
\* increasing V order: emitted commands followed by the buffered ones
\* tile V[0..v_s).
C29_BufferBound ==
    [][(algorithm = "correcting" /\ buf_cap >= 1 /\ pc = "scan") =>
          /\ pc' # "abort"
          /\ Len(buf) <= buf_cap /\ Len(buf') <= buf_cap
          /\ Len(commands) <= Len(commands')
          /\ SubSeq(commands', 1, Len(commands)) = commands
          /\ pc' = "scan" =>
                /\ Tiles(buf', output_size(commands'), v_s')
                /\ commands' # commands => Len(buf') = buf_cap]_vars

\* C29 witness: a scan whose buffer is full after it gave up entries to
\* the output.
C29_Witness ==
    /\ algorithm = "correcting" /\ pc = "scan"
    /\ buf_cap = 2 /\ Len(buf) = buf_cap /\ Len(commands) >= 1

====
